---------------------------- MODULE Spec2Model ----------------------------
(***************************************************************************)
(* Model of the horizontal-pod-autoscaler's two stages: the metric        *)
(* gatherer (facade and pod classifier) and the evaluator (facades,        *)
(* per-source evaluators and replica calculator).                          *)
(*                                                                         *)
(* The program is single-shot and keeps no state between runs, so a state  *)
(* of the model is one invocation: pc names the operation that ran, args   *)
(* holds its inputs and ret what it returned (and, for the calculator,     *)
(* the sample map it mutated in place).                                    *)
(*                                                                         *)
(* float64 ratios are modelled as exact fractions <<num, den>>, den > 0.   *)
(* The tolerances drawn are dyadic (0, 1/2), for which the float           *)
(* comparisons of the code and the exact comparisons of the model agree.   *)
(* int32/int64 values stay far below their widths within the bounds.       *)
(***************************************************************************)
EXTENDS Integers, Sequences, FiniteSets, TLC

VARIABLES pc, args, ret

vars == <<pc, args, ret>>

(***************************************************************************)
(* Bounds of the model.                                                    *)
(***************************************************************************)
MaxValue == 3       \* largest per-pod sample (milli-units)
MaxTarget == 3      \* largest per-pod target
MaxReplicas == 2    \* largest current replica count
MaxReady == 3       \* largest ready pod count handed to the calculator
MaxRequest == 1     \* largest per-pod request (milli-units)

PodNames == {"p1", "p2", "p3"}

\* target utilizations, in percent of the request
TargetUtilizations == {50, 100}

\* tolerance values, as fractions: 0 and 1/2
Tolerances == {<<0, 1>>, <<1, 2>>}

(***************************************************************************)
(* Fractions.                                                              *)
(***************************************************************************)
Abs(x) == IF x < 0 THEN -x ELSE x

\* math.Ceil(n / d) for d > 0
CeilDiv(n, d) == -((-n) \div d)

\* math.Ceil(u * k)
CeilTimes(u, k) == CeilDiv(u[1] * k, u[2])

RatLT1(u) == u[1] < u[2]
RatGT1(u) == u[1] > u[2]
RatEQ1(u) == u[1] = u[2]

\* math.Abs(1.0 - u) <= tolerance
WithinTolerance(u, tol) == Abs(u[2] - u[1]) * tol[2] <= tol[1] * u[2]

\* u <= v
RatLE(u, v) == u[1] * v[2] <= v[1] * u[2]

RECURSIVE SumValues(_, _)
SumValues(f, S) ==
    IF S = {} THEN 0
    ELSE LET x == CHOOSE y \in S : TRUE
         IN  f[x] + SumValues(f, S \ {x})

\* Go's integer division truncates towards zero
GoDiv(a, b) == IF a >= 0 THEN a \div b ELSE -((-a) \div b)

(***************************************************************************)
(* metricsclient.GetMetricUtilizationRatio, as called by the calculator:   *)
(* currentUtilization = total / len(metrics) in integers, ratio =          *)
(* currentUtilization / targetUtilization.  Only called on a non-empty     *)
(* map here (an empty one divides by zero).                                *)
(***************************************************************************)
GetMetricUtilizationRatio(metrics, targetUtilization) ==
    <<GoDiv(SumValues(metrics, DOMAIN metrics), Cardinality(DOMAIN metrics)),
      targetUtilization>>

(***************************************************************************)
(* Evaluator.getUsageRatioReplicaCount                                     *)
(***************************************************************************)
getUsageRatioReplicaCountToleranceFirst(tolerance, currentReplicas, usageRatio, readyPodCount) ==
    IF WithinTolerance(usageRatio, tolerance)
    THEN currentReplicas
    ELSE IF currentReplicas # 0
         THEN CeilTimes(usageRatio, readyPodCount)
         ELSE CeilTimes(usageRatio, 1)

getUsageRatioReplicaCount(tolerance, currentReplicas, usageRatio, readyPodCount) ==
    IF currentReplicas # 0
    THEN IF WithinTolerance(usageRatio, tolerance)
         THEN currentReplicas
         ELSE CeilTimes(usageRatio, readyPodCount)
    ELSE CeilTimes(usageRatio, 1)

(***************************************************************************)
(* Evaluator.getPlainMetricReplicaCount.  The sample map is mutated in     *)
(* place, so the result carries the map as the call leaves it.             *)
(***************************************************************************)
FillInEveryPod(metrics, pods, v) == [p \in (DOMAIN metrics) \cup pods |-> v]

\* metrics[podName] = PodMetric{Value: v} for every podName of pods
FillIn(metrics, pods, v) ==
    [p \in (DOMAIN metrics) \cup pods |-> IF p \in pods THEN v ELSE metrics[p]]

PlainFillMissingAboveTarget(metrics, usageRatio, targetUtilization, missingPods) ==
    IF Cardinality(missingPods) > 0
    THEN IF RatLT1(usageRatio)
         THEN FillIn(metrics, missingPods, targetUtilization + 1)
         ELSE FillIn(metrics, missingPods, 0)
    ELSE metrics

PlainFillMissing(metrics, usageRatio, targetUtilization, missingPods) ==
    IF Cardinality(missingPods) > 0
    THEN IF RatLT1(usageRatio)
         THEN FillIn(metrics, missingPods, targetUtilization)
         ELSE FillIn(metrics, missingPods, 0)
    ELSE metrics

PlainFlipOrTolerance(tolerance, usageRatio, newUsageRatio) ==
    \/ WithinTolerance(newUsageRatio, tolerance)
    \/ (RatLT1(usageRatio) /\ RatGT1(newUsageRatio))
    \/ (RatGT1(usageRatio) /\ RatLT1(newUsageRatio))

\* with nothing to fill in: the decision on the base ratio
PlainNoFillInByReplicas(tolerance, usageRatio, currentReplicas, readyPodCount) ==
    IF WithinTolerance(usageRatio, tolerance)
    THEN currentReplicas
    ELSE CeilTimes(usageRatio, currentReplicas)

PlainNoFillIn(tolerance, usageRatio, currentReplicas, readyPodCount) ==
    IF WithinTolerance(usageRatio, tolerance)
    THEN currentReplicas
    ELSE CeilTimes(usageRatio, readyPodCount)

getPlainMetricReplicaCount(tolerance, metrics, currentReplicas, targetUtilization, readyPodCount, missingPods, ignoredPods) ==
    IF Cardinality(DOMAIN metrics) = 0
    THEN [panic |-> TRUE, replicas |-> 0, metrics |-> metrics]
    ELSE
    LET usageRatio == GetMetricUtilizationRatio(metrics, targetUtilization)
        rebalanceIgnored == Cardinality(ignoredPods) > 0 /\ RatGT1(usageRatio)
    IN  IF ~rebalanceIgnored /\ Cardinality(missingPods) = 0
        THEN [panic |-> FALSE,
              replicas |-> PlainNoFillIn(tolerance, usageRatio, currentReplicas,
                                         readyPodCount),
              metrics |-> metrics]
        ELSE
        LET filled == PlainFillMissing(metrics, usageRatio, targetUtilization, missingPods)
            rebalanced == IF rebalanceIgnored THEN FillIn(filled, ignoredPods, 0)
                          ELSE filled
            newUsageRatio == GetMetricUtilizationRatio(rebalanced, targetUtilization)
        IN  IF PlainFlipOrTolerance(tolerance, usageRatio, newUsageRatio)
            THEN [panic |-> FALSE, replicas |-> currentReplicas, metrics |-> rebalanced]
            ELSE [panic |-> FALSE,
                  replicas |-> CeilTimes(newUsageRatio, Cardinality(DOMAIN rebalanced)),
                  metrics |-> rebalanced]

(***************************************************************************)
(* metricsclient.GetResourceUtilizationRatio, as called by the resource    *)
(* evaluator: only the samples of pods with a request count; the current   *)
(* utilization is the integer percentage total * 100 / requests; the call  *)
(* fails when the requests that matched sum to zero.                       *)
(***************************************************************************)
MatchedPods(metrics, requests) == (DOMAIN metrics) \cap (DOMAIN requests)

ResourceRatioFails(metrics, requests) ==
    SumValues(requests, MatchedPods(metrics, requests)) = 0

GetResourceUtilizationRatio(metrics, requests, targetUtilization) ==
    <<GoDiv(SumValues(metrics, MatchedPods(metrics, requests)) * 100,
            SumValues(requests, MatchedPods(metrics, requests))),
      targetUtilization>>

(***************************************************************************)
(* Results of an evaluation: an evaluation, an error, or a panic (a nil    *)
(* dereference or an integer division by zero ends the process).           *)
(***************************************************************************)
NoError == [nil |-> TRUE, msg |-> ""]
Error(msg) == [nil |-> FALSE, msg |-> msg]

NilEvaluation == [nil |-> TRUE, TargetReplicas |-> 0]
Evaluation(n) == [nil |-> FALSE, TargetReplicas |-> n]

Evaluated(n, metrics) ==
    [panic |-> FALSE, err |-> NoError, evaluation |-> Evaluation(n), metrics |-> metrics]
FailedWithEvaluation(msg, metrics) ==
    [panic |-> FALSE, err |-> Error(msg), evaluation |-> Evaluation(0), metrics |-> metrics]

Failed(msg, metrics) ==
    [panic |-> FALSE, err |-> Error(msg), evaluation |-> NilEvaluation, metrics |-> metrics]
Panicked(metrics) ==
    [panic |-> TRUE, err |-> NoError, evaluation |-> NilEvaluation, metrics |-> metrics]

\* an optional value (a Go pointer) is the empty set when nil
IsNil(q) == q = {}
Deref(q) == CHOOSE v \in q : TRUE

NilMeasurement == [nil |-> TRUE]
NoMetrics == [p \in {} |-> 0]

\* the sample map a metric carries, for the result of an evaluator that has none
MetricsOf(m) ==
    IF m.Spec.Type = "Resource" /\ m.Resource # NilMeasurement THEN m.Resource.PodMetricsInfo
    ELSE IF m.Spec.Type = "Pods" /\ m.Pods # NilMeasurement THEN m.Pods.PodMetricsInfo
    ELSE NoMetrics

FromCalculator(r) ==
    IF r.panic THEN Panicked(r.metrics) ELSE Evaluated(r.replicas, r.metrics)

(***************************************************************************)
(* Per-pod averaging, shared by the external and object evaluators:        *)
(* usageRatio = utilization / (target * currentReplicas), a float division *)
(* (with currentReplicas = 0 it is +-Inf, beyond any tolerance, or NaN     *)
(* for utilization 0, for which the comparison is false).                  *)
(***************************************************************************)
PerPodReplicaCountIgnoringReplicas(tolerance, currentReplicas, utilization, targetPerPod) ==
    IF ~WithinTolerance(<<utilization, targetPerPod>>, tolerance)
    THEN CeilDiv(utilization, targetPerPod)
    ELSE currentReplicas

PerPodReplicaCount(tolerance, currentReplicas, utilization, targetPerPod) ==
    IF currentReplicas = 0
    THEN IF utilization = 0 THEN currentReplicas
         ELSE CeilDiv(utilization, targetPerPod)
    ELSE IF ~WithinTolerance(<<utilization, targetPerPod * currentReplicas>>, tolerance)
         THEN CeilDiv(utilization, targetPerPod)
         ELSE currentReplicas

(***************************************************************************)
(* external.Evaluate.GetEvaluation                                         *)
(***************************************************************************)
ExternalGetEvaluation(tolerance, currentReplicas, m) ==
    IF ~IsNil(m.Spec.Target.AverageValue)
    THEN Evaluated(PerPodReplicaCount(tolerance, currentReplicas, m.External.Utilization,
                                      Deref(m.Spec.Target.AverageValue)), NoMetrics)
    ELSE IF ~IsNil(m.Spec.Target.Value)
    THEN IF IsNil(m.External.ReadyPodCount)
         THEN Panicked(NoMetrics)
         ELSE Evaluated(getUsageRatioReplicaCount(tolerance, currentReplicas,
                            <<m.External.Utilization, Deref(m.Spec.Target.Value)>>,
                            Deref(m.External.ReadyPodCount)), NoMetrics)
    ELSE Failed("invalid external metric source: neither a value target nor an average value target was set",
                NoMetrics)

(***************************************************************************)
(* object.Evaluate.GetEvaluation                                           *)
(***************************************************************************)
ObjectGetEvaluation(tolerance, currentReplicas, m) ==
    IF m.Spec.Target.Type = "Value"
    THEN IF IsNil(m.Spec.Target.Value) \/ IsNil(m.Object.ReadyPodCount)
         THEN Panicked(NoMetrics)
         ELSE Evaluated(getUsageRatioReplicaCount(tolerance, currentReplicas,
                            <<m.Object.Utilization, Deref(m.Spec.Target.Value)>>,
                            Deref(m.Object.ReadyPodCount)), NoMetrics)
    ELSE IF m.Spec.Target.Type = "AverageValue"
    THEN IF IsNil(m.Spec.Target.AverageValue)
         THEN Panicked(NoMetrics)
         ELSE Evaluated(PerPodReplicaCount(tolerance, currentReplicas, m.Object.Utilization,
                                           Deref(m.Spec.Target.AverageValue)), NoMetrics)
    ELSE Failed("invalid object metric source: neither a value target nor an average value target was set",
                NoMetrics)

(***************************************************************************)
(* pods.Evaluate.GetEvaluation                                             *)
(***************************************************************************)
PodsGetEvaluation(tolerance, currentReplicas, m) ==
    IF IsNil(m.Spec.Target.AverageValue)
    THEN Panicked(m.Pods.PodMetricsInfo)
    ELSE FromCalculator(getPlainMetricReplicaCount(tolerance, m.Pods.PodMetricsInfo,
             currentReplicas, Deref(m.Spec.Target.AverageValue), m.Pods.ReadyPodCount,
             m.Pods.MissingPods, m.Pods.IgnoredPods))

(***************************************************************************)
(* resource.Evaluate.GetEvaluation: the AverageUtilization branch.  The    *)
(* sample map is mutated in place; the result carries it.                  *)
(***************************************************************************)
\* metrics[podName] = PodMetric{Value: requests[podName]} (0 without a request)
FillInRequests(metrics, pods, requests) ==
    [p \in (DOMAIN metrics) \cup pods |->
        IF p \in pods THEN (IF p \in DOMAIN requests THEN requests[p] ELSE 0)
        ELSE metrics[p]]

ResourceFillMissingElseZero(metrics, usageRatio, requests, missingPods) ==
    IF Cardinality(missingPods) > 0
    THEN IF RatLT1(usageRatio) THEN FillInRequests(metrics, missingPods, requests)
         ELSE FillIn(metrics, missingPods, 0)
    ELSE metrics

ResourceFillMissing(metrics, usageRatio, requests, missingPods) ==
    IF Cardinality(missingPods) > 0
    THEN IF RatLT1(usageRatio) THEN FillInRequests(metrics, missingPods, requests)
         ELSE IF RatGT1(usageRatio) THEN FillIn(metrics, missingPods, 0)
         ELSE metrics
    ELSE metrics

ResourceFlipOrTolerance(tolerance, usageRatio, newUsageRatio) ==
    \/ WithinTolerance(newUsageRatio, tolerance)
    \/ (RatLT1(usageRatio) /\ RatGT1(newUsageRatio))
    \/ (RatGT1(usageRatio) /\ RatLT1(newUsageRatio))

ResourceUtilizationEvaluationByReady(tolerance, currentReplicas, metrics, requests, targetUtilization, ignoredPods, missingPods, readyPodCount) ==
    IF ResourceRatioFails(metrics, requests)
    THEN Failed("no metrics returned matched known pods", metrics)
    ELSE
    LET usageRatio == GetResourceUtilizationRatio(metrics, requests, targetUtilization)
        rebalanceIgnored == Cardinality(ignoredPods) > 0 /\ RatGT1(usageRatio)
    IN  IF ~rebalanceIgnored /\ Cardinality(missingPods) = 0
        THEN IF WithinTolerance(usageRatio, tolerance)
             THEN Evaluated(currentReplicas, metrics)
             ELSE Evaluated(CeilTimes(usageRatio, readyPodCount), metrics)
        ELSE
        LET filled == ResourceFillMissing(metrics, usageRatio, requests, missingPods)
            rebalanced == IF rebalanceIgnored THEN FillIn(filled, ignoredPods, 0)
                          ELSE filled
        IN  IF ResourceRatioFails(rebalanced, requests)
            THEN Failed("no metrics returned matched known pods", rebalanced)
            ELSE
            LET newUsageRatio ==
                    GetResourceUtilizationRatio(rebalanced, requests, targetUtilization)
            IN  IF ResourceFlipOrTolerance(tolerance, usageRatio, newUsageRatio)
                THEN Evaluated(currentReplicas, rebalanced)
                ELSE Evaluated(CeilTimes(newUsageRatio, readyPodCount), rebalanced)

ResourceUtilizationEvaluation(tolerance, currentReplicas, metrics, requests, targetUtilization, ignoredPods, missingPods, readyPodCount) ==
    IF ResourceRatioFails(metrics, requests)
    THEN Failed("no metrics returned matched known pods", metrics)
    ELSE
    LET usageRatio == GetResourceUtilizationRatio(metrics, requests, targetUtilization)
        rebalanceIgnored == Cardinality(ignoredPods) > 0 /\ RatGT1(usageRatio)
    IN  IF ~rebalanceIgnored /\ Cardinality(missingPods) = 0
        THEN IF WithinTolerance(usageRatio, tolerance)
             THEN Evaluated(currentReplicas, metrics)
             ELSE Evaluated(CeilTimes(usageRatio, readyPodCount), metrics)
        ELSE
        LET filled == ResourceFillMissing(metrics, usageRatio, requests, missingPods)
            rebalanced == IF rebalanceIgnored THEN FillIn(filled, ignoredPods, 0)
                          ELSE filled
        IN  IF ResourceRatioFails(rebalanced, requests)
            THEN Failed("no metrics returned matched known pods", rebalanced)
            ELSE
            LET newUsageRatio ==
                    GetResourceUtilizationRatio(rebalanced, requests, targetUtilization)
            IN  IF ResourceFlipOrTolerance(tolerance, usageRatio, newUsageRatio)
                THEN Evaluated(currentReplicas, rebalanced)
                ELSE Evaluated(CeilTimes(newUsageRatio, Cardinality(DOMAIN rebalanced)),
                               rebalanced)

(***************************************************************************)
(* resource.Evaluate.GetEvaluation                                         *)
(***************************************************************************)
ResourceGetEvaluation(tolerance, currentReplicas, m) ==
    IF ~IsNil(m.Spec.Target.AverageValue)
    THEN FromCalculator(getPlainMetricReplicaCount(tolerance, m.Resource.PodMetricsInfo,
             currentReplicas, Deref(m.Spec.Target.AverageValue), m.Resource.ReadyPodCount,
             m.Resource.MissingPods, m.Resource.IgnoredPods))
    ELSE IF ~IsNil(m.Spec.Target.AverageUtilization)
    THEN ResourceUtilizationEvaluation(tolerance, currentReplicas,
             m.Resource.PodMetricsInfo, m.Resource.Requests,
             Deref(m.Spec.Target.AverageUtilization), m.Resource.IgnoredPods,
             m.Resource.MissingPods, m.Resource.ReadyPodCount)
    ELSE Failed("invalid resource metric source: neither a utilization target nor a value target was set",
                MetricsOf(m))

(***************************************************************************)
(* Evaluate.getEvaluation: the dispatch of the evaluator facade.  The pods *)
(* evaluator returns no error.                                             *)
(***************************************************************************)
UnknownSourceType(type) == "unknown metric source type \"" \o type \o "\""

EvaluateGetEvaluationOne(tolerance, currentReplicas, m) ==
    CASE m.Spec.Type = "Object" -> ObjectGetEvaluation(tolerance, currentReplicas, m)
      [] m.Spec.Type = "Pods" -> PodsGetEvaluation(tolerance, currentReplicas, m)
      [] m.Spec.Type = "Resource" -> ResourceGetEvaluation(tolerance, currentReplicas, m)
      [] m.Spec.Type = "External" -> ExternalGetEvaluation(tolerance, currentReplicas, m)
      [] OTHER -> Failed(UnknownSourceType(m.Spec.Type), NoMetrics)

(***************************************************************************)
(* Evaluate.GetEvaluation: the loop over the gathered metrics, then the    *)
(* all-invalid check.                                                      *)
(***************************************************************************)
InvalidEvaluations(invalid, total, first) ==
    "invalid evaluations (" \o ToString(invalid) \o " invalid out of " \o ToString(total)
        \o "), first error is: " \o (IF first.nil THEN "<nil>" ELSE first.msg)

\* EvaluateLoopBody without the comparison: the first evaluation is kept
EvaluateLoopBodyKeepFirst(acc, r) ==
    IF r.panic THEN [acc EXCEPT !.panic = TRUE]
    ELSE IF ~r.err.nil
    THEN [acc EXCEPT !.invalidError = IF acc.invalidCount <= 0 THEN r.err ELSE @,
                     !.invalidCount = @ + 1]
    ELSE IF acc.evaluation.nil THEN [acc EXCEPT !.evaluation = r.evaluation]
    ELSE acc

\* EvaluateLoopBody without the guard on the first error: the last error is kept
EvaluateLoopBodyLastError(acc, r) ==
    IF r.panic THEN [acc EXCEPT !.panic = TRUE]
    ELSE IF ~r.err.nil
    THEN [acc EXCEPT !.invalidError = r.err, !.invalidCount = @ + 1]
    ELSE IF acc.evaluation.nil THEN [acc EXCEPT !.evaluation = r.evaluation]
    ELSE IF r.evaluation.TargetReplicas > acc.evaluation.TargetReplicas
    THEN [acc EXCEPT !.evaluation = r.evaluation]
    ELSE acc

LoopStart ==
    [panic |-> FALSE, returned |-> FALSE, evaluation |-> NilEvaluation,
     invalidError |-> NoError, invalidCount |-> 0]

\* one iteration of the loop of Evaluate.GetEvaluation
EvaluateLoopBody(acc, r) ==
    IF r.panic THEN [acc EXCEPT !.panic = TRUE]
    ELSE IF ~r.err.nil
    THEN [acc EXCEPT !.invalidError = IF acc.invalidCount <= 0 THEN r.err ELSE @,
                     !.invalidCount = @ + 1]
    ELSE IF acc.evaluation.nil THEN [acc EXCEPT !.evaluation = r.evaluation]
    ELSE IF r.evaluation.TargetReplicas > acc.evaluation.TargetReplicas
    THEN [acc EXCEPT !.evaluation = r.evaluation]
    ELSE acc

RECURSIVE EvaluateLoop(_, _, _, _)
EvaluateLoop(tolerance, gatheredMetrics, i, acc) ==
    IF i > Len(gatheredMetrics) \/ acc.panic THEN acc
    ELSE EvaluateLoop(tolerance, gatheredMetrics, i + 1,
             EvaluateLoopBody(acc,
                 EvaluateGetEvaluationOne(tolerance, gatheredMetrics[i].CurrentReplicas,
                                          gatheredMetrics[i])))

FacadeResult(panic, err, evaluation) ==
    [panic |-> panic, err |-> err, evaluation |-> evaluation]

EvaluateGetEvaluation(tolerance, gatheredMetrics) ==
    LET acc == EvaluateLoop(tolerance, gatheredMetrics, 1, LoopStart)
    IN  IF acc.panic THEN FacadeResult(TRUE, NoError, NilEvaluation)
        ELSE IF acc.invalidCount >= Len(gatheredMetrics)
        THEN FacadeResult(FALSE,
                 Error(InvalidEvaluations(acc.invalidCount, Len(gatheredMetrics),
                                          acc.invalidError)),
                 NilEvaluation)
        ELSE FacadeResult(FALSE, NoError, acc.evaluation)

(***************************************************************************)
(* The earlier Evaluator of the repository: its per-source methods.  A     *)
(* spec carries the target of its own source only, so reading the target   *)
(* of another source dereferences nil.                                     *)
(***************************************************************************)
getObjectEvaluation(tolerance, currentReplicas, m) ==
    ObjectGetEvaluation(tolerance, currentReplicas, m)

\* reads Spec.Pods.Target.Value and the missing and ignored pods of m.Resource
getPodsEvaluation(tolerance, currentReplicas, m) ==
    IF IsNil(m.Spec.Target.Value) \/ m.Resource = NilMeasurement
    THEN Panicked(MetricsOf(m))
    ELSE FromCalculator(getPlainMetricReplicaCount(tolerance, m.Pods.PodMetricsInfo,
             currentReplicas, Deref(m.Spec.Target.Value), m.Pods.ReadyPodCount,
             m.Resource.MissingPods, m.Resource.IgnoredPods))

\* the AverageValue branch reads Spec.Object.Target, nil for a resource spec
getResourceEvaluation(tolerance, currentReplicas, m) ==
    IF ~IsNil(m.Spec.Target.AverageValue)
    THEN Panicked(MetricsOf(m))
    ELSE IF ~IsNil(m.Spec.Target.AverageUtilization)
    THEN ResourceUtilizationEvaluation(tolerance, currentReplicas,
             m.Resource.PodMetricsInfo, m.Resource.Requests,
             Deref(m.Spec.Target.AverageUtilization), m.Resource.IgnoredPods,
             m.Resource.MissingPods, m.Resource.ReadyPodCount)
    ELSE Failed("invalid resource metric source: neither a utilization target nor a value target was set",
                MetricsOf(m))

\* the second branch tests AverageUtilization and reads Target.Value
getExternalEvaluation(tolerance, currentReplicas, m) ==
    IF ~IsNil(m.Spec.Target.AverageValue)
    THEN Evaluated(PerPodReplicaCount(tolerance, currentReplicas, m.External.Utilization,
                                      Deref(m.Spec.Target.AverageValue)), NoMetrics)
    ELSE IF ~IsNil(m.Spec.Target.AverageUtilization)
    THEN IF IsNil(m.Spec.Target.Value) \/ IsNil(m.External.ReadyPodCount)
         THEN Panicked(NoMetrics)
         ELSE Evaluated(getUsageRatioReplicaCount(tolerance, currentReplicas,
                            <<m.External.Utilization, Deref(m.Spec.Target.Value)>>,
                            Deref(m.External.ReadyPodCount)), NoMetrics)
    ELSE Failed("invalid external metric source: neither a value target nor an average value target was set",
                NoMetrics)

EvaluatorGetEvaluationOne(tolerance, currentReplicas, m) ==
    CASE m.Spec.Type = "Object" -> getObjectEvaluation(tolerance, currentReplicas, m)
      [] m.Spec.Type = "Pods" -> getPodsEvaluation(tolerance, currentReplicas, m)
      [] m.Spec.Type = "Resource" -> getResourceEvaluation(tolerance, currentReplicas, m)
      [] m.Spec.Type = "External" -> getExternalEvaluation(tolerance, currentReplicas, m)
      [] OTHER -> Failed(UnknownSourceType(m.Spec.Type), NoMetrics)

(***************************************************************************)
(* Evaluator.GetEvaluation: the loop returns at the first error; the       *)
(* invalid count is never incremented.                                     *)
(***************************************************************************)
EvaluatorLoopBody(acc, r) ==
    IF r.panic THEN [acc EXCEPT !.panic = TRUE]
    ELSE IF ~r.err.nil
    THEN [acc EXCEPT !.returned = TRUE, !.invalidError = r.err]
    ELSE IF acc.evaluation.nil THEN [acc EXCEPT !.evaluation = r.evaluation]
    ELSE IF r.evaluation.TargetReplicas > acc.evaluation.TargetReplicas
    THEN [acc EXCEPT !.evaluation = r.evaluation]
    ELSE acc

RECURSIVE EvaluatorLoop(_, _, _, _)
EvaluatorLoop(tolerance, gatheredMetrics, i, acc) ==
    IF i > Len(gatheredMetrics) \/ acc.panic \/ acc.returned THEN acc
    ELSE EvaluatorLoop(tolerance, gatheredMetrics, i + 1,
             EvaluatorLoopBody(acc,
                 EvaluatorGetEvaluationOne(tolerance, gatheredMetrics[i].CurrentReplicas,
                                           gatheredMetrics[i])))

EvaluatorGetEvaluation(tolerance, gatheredMetrics) ==
    LET acc == EvaluatorLoop(tolerance, gatheredMetrics, 1, LoopStart)
    IN  IF acc.panic THEN FacadeResult(TRUE, NoError, NilEvaluation)
        ELSE IF acc.returned THEN FacadeResult(FALSE, acc.invalidError, NilEvaluation)
        ELSE IF acc.invalidCount >= Len(gatheredMetrics)
        THEN FacadeResult(FALSE,
                 Error(InvalidEvaluations(acc.invalidCount, Len(gatheredMetrics), NoError)),
                 NilEvaluation)
        ELSE FacadeResult(FALSE, NoError, acc.evaluation)

(***************************************************************************)
(* Gather.getReplicaCount: the replica count of a supported scale target   *)
(* (a pointer, nil when unset), an error for any other kind.               *)
(***************************************************************************)
SupportedKinds == {"Deployment", "ReplicaSet", "StatefulSet", "ReplicationController"}

\* the %T rendering of a pointer to an API object of the given kind
GoTypeName(kind) == "*v1." \o kind

UnsupportedResource(kind) == "Unsupported resource of type " \o GoTypeName(kind)

getReplicaCountAnyKind(resource) == [err |-> NoError, replicas |-> resource.Replicas]

getReplicaCount(resource) ==
    IF resource.Kind \in SupportedKinds
    THEN [err |-> NoError, replicas |-> resource.Replicas]
    ELSE [err |-> Error(UnsupportedResource(resource.Kind)), replicas |-> {}]

(***************************************************************************)
(* Gather.getMetric: the dispatch on the spec, the target-shape prechecks  *)
(* and the call of the per-source gatherer.  A per-source gatherer talks   *)
(* to the metrics client and the pod lister: what it returns is given by   *)
(* the environment (upstream: "" on success, else the text of its error).  *)
(* The result names the gatherer invoked, if any.                          *)
(***************************************************************************)
Measurement(gatherer) == [nil |-> FALSE, gatherer |-> gatherer]

GatheredAsResource(currentReplicas, spec, gatherer) ==
    [CurrentReplicas |-> currentReplicas, Spec |-> spec,
     Resource |-> IF spec.Type \in {"Resource", "Pods"} THEN Measurement(gatherer)
                  ELSE NilMeasurement,
     Pods |-> NilMeasurement,
     Object |-> IF spec.Type = "Object" THEN Measurement(gatherer) ELSE NilMeasurement,
     External |-> IF spec.Type = "External" THEN Measurement(gatherer) ELSE NilMeasurement]

Gathered(currentReplicas, spec, gatherer) ==
    [CurrentReplicas |-> currentReplicas, Spec |-> spec,
     Resource |-> IF spec.Type = "Resource" THEN Measurement(gatherer) ELSE NilMeasurement,
     Pods |-> IF spec.Type = "Pods" THEN Measurement(gatherer) ELSE NilMeasurement,
     Object |-> IF spec.Type = "Object" THEN Measurement(gatherer) ELSE NilMeasurement,
     External |-> IF spec.Type = "External" THEN Measurement(gatherer) ELSE NilMeasurement]

NilMetric == [nil |-> TRUE]

NotGathered(msg) == [err |-> Error(msg), metric |-> NilMetric, calls |-> <<>>]

\* the call of one per-source gatherer and the wrapping of its error
CallGatherer(currentReplicas, spec, upstream, gatherer, prefix) ==
    IF upstream # ""
    THEN [err |-> Error(prefix \o upstream), metric |-> NilMetric, calls |-> <<gatherer>>]
    ELSE [err |-> NoError, metric |-> Gathered(currentReplicas, spec, gatherer),
          calls |-> <<gatherer>>]

getMetric(currentReplicas, spec, upstream) ==
    CASE spec.Type = "Object" ->
            IF ~spec.SelectorOK
            THEN NotGathered("failed to get object metric: invalid label selector")
            ELSE IF spec.Target.Type = "Value"
            THEN CallGatherer(currentReplicas, spec, upstream, "Object.GetMetric",
                              "failed to get object metric: ")
            ELSE IF spec.Target.Type = "AverageValue"
            THEN CallGatherer(currentReplicas, spec, upstream, "Object.GetPerPodMetric",
                              "failed to get object metric: ")
            ELSE NotGathered("invalid object metric source: neither a value target nor an average value target was set")
      [] spec.Type = "Pods" ->
            IF ~spec.SelectorOK
            THEN NotGathered("failed to get pods metric: invalid label selector")
            ELSE CallGatherer(currentReplicas, spec, upstream, "Pods.GetMetric",
                              "failed to get pods metric: ")
      [] spec.Type = "Resource" ->
            IF ~IsNil(spec.Target.AverageValue)
            THEN CallGatherer(currentReplicas, spec, upstream, "Resource.GetRawMetric",
                              "failed to get resource metric: ")
            ELSE IF ~IsNil(spec.Target.AverageUtilization)
            THEN CallGatherer(currentReplicas, spec, upstream, "Resource.GetMetric",
                              "failed to get resource metric: ")
            ELSE NotGathered("invalid resource metric source: neither a utilization target nor a value target was set")
      [] spec.Type = "External" ->
            IF ~IsNil(spec.Target.AverageValue)
            THEN CallGatherer(currentReplicas, spec, upstream, "External.GetPerPodMetric",
                              "failed to get external metric: ")
            ELSE IF ~IsNil(spec.Target.AverageUtilization)
            THEN CallGatherer(currentReplicas, spec, upstream, "External.GetMetric",
                              "failed to get external metric: ")
            ELSE NotGathered("invalid external metric source: neither a value target nor an average value target was set")
      [] OTHER -> NotGathered(UnknownSourceType(spec.Type))

(***************************************************************************)
(* The two modes of the program run one after the other on one spec: the   *)
(* metric mode gathers (getMetric), its output is handed to the evaluate   *)
(* mode, which evaluates the gathered metric with the evaluator of the     *)
(* spec's type.  measurement is what the per-source gatherer returned.     *)
(***************************************************************************)
NotEvaluated == [panic |-> FALSE, err |-> NoError, evaluation |-> NilEvaluation,
                 metrics |-> NoMetrics]

GatherThenEvaluate(tolerance, currentReplicas, spec, measurement) ==
    LET gathered == getMetric(currentReplicas, spec, "")
    IN  IF ~gathered.err.nil
        THEN [gatherErr |-> gathered.err, evaluated |-> FALSE, outcome |-> NotEvaluated]
        ELSE [gatherErr |-> NoError, evaluated |-> TRUE,
              outcome |-> EvaluateGetEvaluationOne(tolerance, currentReplicas,
                              [gathered.metric EXCEPT ![spec.Type] = measurement])]

(***************************************************************************)
(* Gather.GetMetrics                                                       *)
(***************************************************************************)
InvalidMetrics(invalid, total, first) ==
    "invalid metrics (" \o ToString(invalid) \o " invalid out of " \o ToString(total)
        \o "), first error is: " \o (IF first.nil THEN "<nil>" ELSE first.msg)

GatherStart ==
    [combinedMetrics |-> <<>>, invalidError |-> NoError, invalidCount |-> 0, calls |-> <<>>]

GatherLoopBodyStopAtFailure(acc, r, i) ==
    LET calls == acc.calls \o [k \in DOMAIN r.calls |-> [spec |-> i, gatherer |-> r.calls[k]]]
    IN  IF acc.invalidCount > 0 THEN [acc EXCEPT !.invalidCount = @ + 1]
        ELSE IF ~r.err.nil
        THEN [acc EXCEPT !.invalidError = r.err, !.invalidCount = @ + 1, !.calls = calls]
        ELSE [acc EXCEPT !.combinedMetrics = Append(@, r.metric), !.calls = calls]

GatherLoopBodyPrepend(acc, r, i) ==
    LET calls == acc.calls \o [k \in DOMAIN r.calls |-> [spec |-> i, gatherer |-> r.calls[k]]]
    IN  IF ~r.err.nil
        THEN [acc EXCEPT !.invalidError = IF acc.invalidCount <= 0 THEN r.err ELSE @,
                         !.invalidCount = @ + 1,
                         !.calls = calls]
        ELSE [acc EXCEPT !.combinedMetrics = <<r.metric>> \o @, !.calls = calls]

GatherLoopBodyLastError(acc, r, i) ==
    LET calls == acc.calls \o [k \in DOMAIN r.calls |-> [spec |-> i, gatherer |-> r.calls[k]]]
    IN  IF ~r.err.nil
        THEN [acc EXCEPT !.invalidError = r.err,
                         !.invalidCount = @ + 1,
                         !.calls = calls]
        ELSE [acc EXCEPT !.combinedMetrics = Append(@, r.metric), !.calls = calls]

\* one iteration of the loop of Gather.GetMetrics; i is the index of the spec
GatherLoopBody(acc, r, i) ==
    LET calls == acc.calls \o [k \in DOMAIN r.calls |-> [spec |-> i, gatherer |-> r.calls[k]]]
    IN  IF ~r.err.nil
        THEN [acc EXCEPT !.invalidError = IF acc.invalidCount <= 0 THEN r.err ELSE @,
                         !.invalidCount = @ + 1,
                         !.calls = calls]
        ELSE [acc EXCEPT !.combinedMetrics = Append(@, r.metric), !.calls = calls]

RECURSIVE GatherLoop(_, _, _, _, _)
GatherLoop(currentReplicas, specs, upstream, i, acc) ==
    IF i > Len(specs) THEN acc
    ELSE GatherLoop(currentReplicas, specs, upstream, i + 1,
             GatherLoopBody(acc, getMetric(currentReplicas, specs[i], upstream[i]), i))

GatherResult(err, metrics, calls) == [err |-> err, metrics |-> metrics, calls |-> calls]

\* currentReplicas := 0, replaced by *resourceReplicas when it is not nil
CurrentReplicasOf(resourceReplicas) ==
    IF IsNil(resourceReplicas) THEN 0 ELSE Deref(resourceReplicas)

GatherGetMetricsSomeInvalid(resource, specs, upstream) ==
    LET rc == getReplicaCount(resource)
    IN  IF ~rc.err.nil THEN GatherResult(rc.err, <<>>, <<>>)
        ELSE
        LET acc == GatherLoop(CurrentReplicasOf(rc.replicas), specs, upstream, 1, GatherStart)
        IN  IF acc.invalidCount > 0 /\ acc.invalidCount >= Len(specs)
            THEN GatherResult(Error(InvalidMetrics(acc.invalidCount, Len(specs),
                                                   acc.invalidError)),
                              <<>>, acc.calls)
            ELSE GatherResult(NoError, acc.combinedMetrics, acc.calls)

GatherGetMetrics(resource, specs, upstream) ==
    LET rc == getReplicaCount(resource)
    IN  IF ~rc.err.nil THEN GatherResult(rc.err, <<>>, <<>>)
        ELSE
        LET acc == GatherLoop(CurrentReplicasOf(rc.replicas), specs, upstream, 1, GatherStart)
        IN  IF acc.invalidCount >= Len(specs)
            THEN GatherResult(Error(InvalidMetrics(acc.invalidCount, Len(specs),
                                                   acc.invalidError)),
                              <<>>, acc.calls)
            ELSE GatherResult(NoError, acc.combinedMetrics, acc.calls)

(***************************************************************************)
(* groupPods: the classification of the listed pods into ready, ignored    *)
(* and missing.  Times are integers; now is the reading of the clock.      *)
(***************************************************************************)
\* whether the sample of a pod is set aside for a cpu metric
ignorePodUnreadyAndStale(pod, metric, cpuInitializationPeriod, delayOfInitialReadinessStatus, now) ==
    IF IsNil(pod.Condition) \/ IsNil(pod.StartTime)
    THEN TRUE
    ELSE LET condition == Deref(pod.Condition)
             startTime == Deref(pod.StartTime)
         IN  IF startTime + cpuInitializationPeriod > now
             THEN /\ condition.Status = "False"
                  /\ metric.Timestamp < condition.LastTransitionTime + metric.Window
             ELSE /\ condition.Status = "False"
                  /\ startTime + delayOfInitialReadinessStatus > condition.LastTransitionTime

ignorePodUnreadyAlways(pod, metric, cpuInitializationPeriod, delayOfInitialReadinessStatus, now) ==
    IF IsNil(pod.Condition) \/ IsNil(pod.StartTime)
    THEN TRUE
    ELSE LET condition == Deref(pod.Condition)
             startTime == Deref(pod.StartTime)
         IN  IF startTime + cpuInitializationPeriod > now
             THEN \/ condition.Status = "False"
                  \/ metric.Timestamp < condition.LastTransitionTime + metric.Window
             ELSE condition.Status = "False"

ignorePod(pod, metric, cpuInitializationPeriod, delayOfInitialReadinessStatus, now) ==
    IF IsNil(pod.Condition) \/ IsNil(pod.StartTime)
    THEN TRUE
    ELSE LET condition == Deref(pod.Condition)
             startTime == Deref(pod.StartTime)
         IN  IF startTime + cpuInitializationPeriod > now
             THEN \/ condition.Status = "False"
                  \/ metric.Timestamp < condition.LastTransitionTime + metric.Window
             ELSE /\ condition.Status = "False"
                  /\ startTime + delayOfInitialReadinessStatus > condition.LastTransitionTime

groupPodsBodyMissingFirst(pod, metrics, resource, cpuInit, delay, now) ==
    IF pod.Name \notin DOMAIN metrics THEN "missing"
    ELSE IF pod.Deleted \/ pod.Phase = "Failed" THEN "skip"
    ELSE IF resource = "cpu" /\ ignorePod(pod, metrics[pod.Name], cpuInit, delay, now)
    THEN "ignored"
    ELSE "ready"

groupPodsBodyAnyResource(pod, metrics, resource, cpuInit, delay, now) ==
    IF pod.Deleted \/ pod.Phase = "Failed" THEN "skip"
    ELSE IF pod.Name \notin DOMAIN metrics THEN "missing"
    ELSE IF ignorePod(pod, metrics[pod.Name], cpuInit, delay, now)
    THEN "ignored"
    ELSE "ready"

groupPodsBodyCountFailed(pod, metrics, resource, cpuInit, delay, now) ==
    IF pod.Deleted THEN "skip"
    ELSE IF pod.Name \notin DOMAIN metrics THEN "missing"
    ELSE IF resource = "cpu" /\ ignorePod(pod, metrics[pod.Name], cpuInit, delay, now)
    THEN "ignored"
    ELSE "ready"

\* the body of the loop of groupPods: where one pod goes
groupPodsBody(pod, metrics, resource, cpuInit, delay, now) ==
    IF pod.Deleted \/ pod.Phase = "Failed" THEN "skip"
    ELSE IF pod.Name \notin DOMAIN metrics THEN "missing"
    ELSE IF resource = "cpu" /\ ignorePod(pod, metrics[pod.Name], cpuInit, delay, now)
    THEN "ignored"
    ELSE "ready"

groupPods(pods, metrics, resource, cpuInit, delay, now) ==
    LET bucket(i) == groupPodsBody(pods[i], metrics, resource, cpuInit, delay, now)
    IN  [readyPodCount |-> Cardinality({i \in DOMAIN pods : bucket(i) = "ready"}),
         ignoredPods |-> {pods[i].Name : i \in {j \in DOMAIN pods : bucket(j) = "ignored"}},
         missingPods |-> {pods[i].Name : i \in {j \in DOMAIN pods : bucket(j) = "missing"}}]

(***************************************************************************)
(* The per-source gatherers.  The metrics client and the pod lister are    *)
(* the environment: fetch and listing are what they return (err "" on      *)
(* success).  A sample is a record with Timestamp, Window and Value.       *)
(***************************************************************************)
NoMeasurement(msg) == [err |-> Error(msg), metric |-> NilMeasurement]

removeMetricsForPodsKeepAll(metrics, pods) == metrics

\* removeMetricsForPods: delete(metrics, pod) for every pod of the set
removeMetricsForPods(metrics, pods) == [p \in (DOMAIN metrics) \ pods |-> metrics[p]]

RECURSIVE SumRequests(_, _)
SumRequests(containers, i) ==
    IF i > Len(containers) THEN 0
    ELSE Deref(containers[i]) + SumRequests(containers, i + 1)

calculatePodRequestsOfLivePods(pods, resource) ==
    LET live == {i \in DOMAIN pods : ~pods[i].Deleted /\ pods[i].Phase # "Failed"}
    IN  IF \E i \in live : \E k \in DOMAIN pods[i].Containers : IsNil(pods[i].Containers[k])
        THEN [err |-> Error("missing request for " \o resource), requests |-> NoMetrics]
        ELSE [err |-> NoError,
              requests |-> [name \in {pods[i].Name : i \in live} |->
                               LET last == CHOOSE i \in live :
                                              /\ pods[i].Name = name
                                              /\ \A j \in live : pods[j].Name = name => j <= i
                               IN  SumRequests(pods[last].Containers, 1)]]

\* calculatePodRequests: the sum of the container requests of every listed
\* pod, an error as soon as a container has no request for the resource
calculatePodRequests(pods, resource) ==
    IF \E i \in DOMAIN pods : \E k \in DOMAIN pods[i].Containers : IsNil(pods[i].Containers[k])
    THEN [err |-> Error("missing request for " \o resource), requests |-> NoMetrics]
    ELSE [err |-> NoError,
          requests |-> [name \in {pods[i].Name : i \in DOMAIN pods} |->
                           LET last == CHOOSE i \in DOMAIN pods :
                                          /\ pods[i].Name = name
                                          /\ \A j \in DOMAIN pods : pods[j].Name = name => j <= i
                           IN  SumRequests(pods[last].Containers, 1)]]

PodsGetMetricFailingOnNoPods(metricName, fetch, listing, now) ==
    IF fetch.err # ""
    THEN NoMeasurement("unable to get metric " \o metricName \o ": " \o fetch.err)
    ELSE IF listing.err # ""
    THEN NoMeasurement("unable to get pods while calculating replica count: " \o listing.err)
    ELSE IF Len(listing.pods) = 0
    THEN NoMeasurement("No pods returned by selector while calculating replica count")
    ELSE LET grouped == groupPods(listing.pods, fetch.metrics, "", 0, 0, now)
         IN  [err |-> NoError,
              metric |-> [PodMetricsInfo |-> fetch.metrics,
                          ReadyPodCount |-> grouped.readyPodCount,
                          IgnoredPods |-> {}, MissingPods |-> grouped.missingPods,
                          TotalPods |-> Len(listing.pods), Timestamp |-> fetch.timestamp]]

\* pods.Gather.GetMetric
PodsGetMetric(metricName, fetch, listing, now) ==
    IF fetch.err # ""
    THEN NoMeasurement("unable to get metric " \o metricName \o ": " \o fetch.err)
    ELSE IF listing.err # ""
    THEN NoMeasurement("unable to get pods while calculating replica count: " \o listing.err)
    ELSE IF Len(listing.pods) = 0
    THEN [err |-> NoError,
          metric |-> [PodMetricsInfo |-> NoMetrics, ReadyPodCount |-> 0,
                      IgnoredPods |-> {}, MissingPods |-> {}, TotalPods |-> 0,
                      Timestamp |-> fetch.timestamp]]
    ELSE LET grouped == groupPods(listing.pods, fetch.metrics, "", 0, 0, now)
         IN  [err |-> NoError,
              metric |-> [PodMetricsInfo |-> fetch.metrics,
                          ReadyPodCount |-> grouped.readyPodCount,
                          IgnoredPods |-> {}, MissingPods |-> grouped.missingPods,
                          TotalPods |-> Len(listing.pods), Timestamp |-> fetch.timestamp]]

\* Gatherer.getResourceMetric
getResourceMetric(resource, fetch, listing, cpuInit, delay, now) ==
    IF fetch.err # ""
    THEN NoMeasurement("unable to get metrics for resource " \o resource \o ": " \o fetch.err)
    ELSE IF listing.err # ""
    THEN NoMeasurement("unable to get pods while calculating replica count: " \o listing.err)
    ELSE IF Len(listing.pods) = 0
    THEN NoMeasurement("No pods returned by selector while calculating replica count")
    ELSE LET grouped == groupPods(listing.pods, fetch.metrics, resource, cpuInit, delay, now)
             podRequests == calculatePodRequests(listing.pods, resource)
         IN  IF ~podRequests.err.nil
             THEN [err |-> podRequests.err, metric |-> NilMeasurement]
             ELSE [err |-> NoError,
                   metric |-> [PodMetricsInfo |->
                                   removeMetricsForPods(fetch.metrics, grouped.ignoredPods),
                               Requests |-> podRequests.requests,
                               ReadyPodCount |-> grouped.readyPodCount,
                               IgnoredPods |-> grouped.ignoredPods,
                               MissingPods |-> grouped.missingPods,
                               TotalPods |-> Len(listing.pods),
                               Timestamp |-> fetch.timestamp]]

\* Gatherer.getRawResourceMetric: as getResourceMetric, without the requests
getRawResourceMetric(resource, fetch, listing, cpuInit, delay, now) ==
    IF fetch.err # ""
    THEN NoMeasurement("unable to get metrics for resource " \o resource \o ": " \o fetch.err)
    ELSE IF listing.err # ""
    THEN NoMeasurement("unable to get pods while calculating replica count: " \o listing.err)
    ELSE IF Len(listing.pods) = 0
    THEN NoMeasurement("No pods returned by selector while calculating replica count")
    ELSE LET grouped == groupPods(listing.pods, fetch.metrics, resource, cpuInit, delay, now)
         IN  [err |-> NoError,
              metric |-> [PodMetricsInfo |->
                              removeMetricsForPods(fetch.metrics, grouped.ignoredPods),
                          Requests |-> NoMetrics,
                          ReadyPodCount |-> grouped.readyPodCount,
                          IgnoredPods |-> grouped.ignoredPods,
                          MissingPods |-> grouped.missingPods,
                          TotalPods |-> Len(listing.pods),
                          Timestamp |-> fetch.timestamp]]

(***************************************************************************)
(* Inputs of the calculator: every pod is absent, has a sample, is         *)
(* missing or is ignored (the gatherer removes the samples of ignored      *)
(* pods, and a missing pod has no sample).                                 *)
(***************************************************************************)
SampleMaps == UNION {[S -> 0..MaxValue] : S \in SUBSET PodNames}

\* requests of pods: the gatherer enters every listed pod, the metrics client
\* may return samples of pods that are not listed
RequestMaps == UNION {[S -> 0..MaxRequest] : S \in SUBSET PodNames}

(***************************************************************************)
(* Gathered metrics handed to the evaluator facades.                       *)
(***************************************************************************)
MaxMetrics == 3     \* longest list of gathered metrics

NoQuantity == {}

MetricTarget(type, value, averageValue, averageUtilization) ==
    [Type |-> type, Value |-> value, AverageValue |-> averageValue,
     AverageUtilization |-> averageUtilization]

PodsMeasurement(metrics, ready, ignored, missing, total) ==
    [PodMetricsInfo |-> metrics, ReadyPodCount |-> ready, IgnoredPods |-> ignored,
     MissingPods |-> missing, TotalPods |-> total]

ResourceMeasurement(metrics, requests, ready, ignored, missing, total) ==
    [PodMetricsInfo |-> metrics, Requests |-> requests, ReadyPodCount |-> ready,
     IgnoredPods |-> ignored, MissingPods |-> missing, TotalPods |-> total]

ScalarMeasurement(utilization, ready) ==
    [Utilization |-> utilization, ReadyPodCount |-> ready]

GatheredMetric(type, target, resource, pods, object, external) ==
    [CurrentReplicas |-> 0, Spec |-> [Type |-> type, Target |-> target],
     Resource |-> resource, Pods |-> pods, Object |-> object, External |-> external]

ObjectMetric(target, object) ==
    GatheredMetric("Object", target, NilMeasurement, NilMeasurement, object, NilMeasurement)
PodsMetric(target, pods) ==
    GatheredMetric("Pods", target, NilMeasurement, pods, NilMeasurement, NilMeasurement)
ResourceMetric(target, resource) ==
    GatheredMetric("Resource", target, resource, NilMeasurement, NilMeasurement, NilMeasurement)
ExternalMetric(target, external) ==
    GatheredMetric("External", target, NilMeasurement, NilMeasurement, NilMeasurement, external)

OneSample(v) == [p \in {"p1"} |-> v]

\* one or more gathered metrics of every source and target shape, failing and
\* succeeding ones, among them a negative recommendation
FacadeMetrics ==
    {GatheredMetric("invalid", MetricTarget("", NoQuantity, NoQuantity, NoQuantity),
                    NilMeasurement, NilMeasurement, NilMeasurement, NilMeasurement)}
    \cup {ObjectMetric(MetricTarget("Utilization", NoQuantity, NoQuantity, {50}),
                       ScalarMeasurement(1, {}))}
    \cup {ObjectMetric(MetricTarget("Value", {1}, NoQuantity, NoQuantity),
                       ScalarMeasurement(u, {1})) : u \in {-1, MaxReplicas}}
    \cup {ObjectMetric(MetricTarget("AverageValue", NoQuantity, {1}, NoQuantity),
                       ScalarMeasurement(3, {}))}
    \cup {ResourceMetric(MetricTarget("Utilization", NoQuantity, NoQuantity, NoQuantity),
                         ResourceMeasurement(OneSample(1), NoMetrics, 1, {}, {}, 1))}
    \cup {ResourceMetric(MetricTarget("Utilization", NoQuantity, NoQuantity, {50}),
                         ResourceMeasurement(OneSample(2), r, 1, {}, {}, 1)) :
             r \in {NoMetrics, OneSample(1)}}
    \cup {ResourceMetric(MetricTarget("AverageValue", NoQuantity, {1}, NoQuantity),
                         ResourceMeasurement(OneSample(2), NoMetrics, 1, {}, {}, 1))}
    \cup {PodsMetric(MetricTarget("AverageValue", NoQuantity, {1}, NoQuantity),
                     PodsMeasurement(OneSample(1), 1, {}, {}, 1))}
    \cup {PodsMetric(MetricTarget("AverageValue", NoQuantity, {1}, NoQuantity),
                     PodsMeasurement(NoMetrics, 0, {}, {}, 0))}
    \cup {ExternalMetric(MetricTarget("AverageValue", NoQuantity, {1}, NoQuantity),
                         ScalarMeasurement(1, {}))}
    \cup {ExternalMetric(MetricTarget("Utilization", NoQuantity, NoQuantity, {50}),
                         ScalarMeasurement(1, {1}))}
    \cup {ExternalMetric(MetricTarget("Value", {1}, NoQuantity, {50}),
                         ScalarMeasurement(2, {1}))}

MetricLists == UNION {[1..n -> FacadeMetrics] : n \in 0..MaxMetrics}

\* every gathered metric of one run carries the same current replica count
WithReplicas(ms, c) == [i \in DOMAIN ms |-> [ms[i] EXCEPT !.CurrentReplicas = c]]

(***************************************************************************)
(* Scale targets and metric specs handed to the gatherer facade.           *)
(***************************************************************************)
MaxSpecs == 3       \* longest list of metric specs

ResourceKinds == SupportedKinds \cup {"DaemonSet"}

\* Spec.Replicas of the scale target: unset or positive, and zero for one kind
ScaleTargets ==
    {[Kind |-> k, Replicas |-> r] : k \in SupportedKinds, r \in {{}, {MaxReplicas}}}
    \cup {[Kind |-> "Deployment", Replicas |-> {0}]}
    \cup {[Kind |-> "DaemonSet", Replicas |-> {MaxReplicas}]}

MetricSpec(type, selectorOK, target) ==
    [Type |-> type, SelectorOK |-> selectorOK, Target |-> target]

\* a spec with the outcome of its per-source gatherer ("" when it succeeds, or
\* when the precheck of the spec fails and no gatherer is called)
GatherCases ==
    {<<MetricSpec("Object", TRUE, MetricTarget("Value", {1}, NoQuantity, NoQuantity)), "">>,
     <<MetricSpec("Object", TRUE, MetricTarget("AverageValue", NoQuantity, {1}, NoQuantity)),
       "unable to get metric">>,
     <<MetricSpec("Object", TRUE, MetricTarget("Utilization", NoQuantity, NoQuantity, {50})), "">>,
     <<MetricSpec("Pods", TRUE, MetricTarget("AverageValue", NoQuantity, {1}, NoQuantity)), "">>,
     <<MetricSpec("Pods", TRUE, MetricTarget("AverageValue", NoQuantity, {1}, NoQuantity)),
       "unable to get pods">>,
     <<MetricSpec("Pods", FALSE, MetricTarget("AverageValue", NoQuantity, {1}, NoQuantity)), "">>,
     <<MetricSpec("Resource", TRUE, MetricTarget("AverageValue", NoQuantity, {1}, NoQuantity)), "">>,
     <<MetricSpec("Resource", TRUE, MetricTarget("Utilization", NoQuantity, NoQuantity, {50})), "">>,
     <<MetricSpec("Resource", TRUE, MetricTarget("Utilization", NoQuantity, NoQuantity, {50})),
       "No pods returned by selector">>,
     <<MetricSpec("Resource", TRUE, MetricTarget("Value", {1}, NoQuantity, NoQuantity)), "">>,
     <<MetricSpec("External", TRUE, MetricTarget("AverageValue", NoQuantity, {1}, NoQuantity)),
       "unable to get external metric">>,
     <<MetricSpec("External", TRUE, MetricTarget("Utilization", NoQuantity, NoQuantity, {50})), "">>,
     <<MetricSpec("External", TRUE, MetricTarget("Value", {1}, NoQuantity, NoQuantity)), "">>,
     <<MetricSpec("invalid", TRUE, MetricTarget("", NoQuantity, NoQuantity, NoQuantity)), "">>}

CaseLists == UNION {[1..n -> GatherCases] : n \in 0..MaxSpecs}

SpecsOf(cases) == [i \in DOMAIN cases |-> cases[i][1]]
UpstreamOf(cases) == [i \in DOMAIN cases |-> cases[i][2]]

(***************************************************************************)
(* Pod lists and samples handed to groupPods.  A pod comes with its sample *)
(* (none when the metrics client returned nothing for it); the names of    *)
(* the listed pods are distinct, as the names of pods of one namespace.    *)
(***************************************************************************)
MaxPods == 2        \* longest pod list

Times == {0, 1}             \* start and last transition times
SampleTimes == {1, 2}       \* timestamps of samples
Clock == {2}                \* readings of the clock
Periods == {1, 2}           \* cpu initialization periods
Delays == {0, 1}            \* delays of the initial readiness status

PodName(i) == "p" \o ToString(i)

PodStatus(deleted, phase, condition, startTime, sample) ==
    [Deleted |-> deleted, Phase |-> phase, Condition |-> condition,
     StartTime |-> startTime, Sample |-> sample]

PodConditions ==
    {{}} \cup {{[Status |-> st, LastTransitionTime |-> t]} : st \in {"True", "False"}, t \in Times}

PodSamples == {{[Timestamp |-> t, Window |-> 1, Value |-> 1]} : t \in SampleTimes}

\* a pod groupPods skips or finds no sample for is looked at no further;
\* a skipped pod may have a sample all the same
PodCases ==
    {PodStatus(TRUE, "Running", {}, {}, {}), PodStatus(FALSE, "Failed", {}, {}, {}),
     PodStatus(TRUE, "Failed", {}, {}, {}), PodStatus(FALSE, "Running", {}, {}, {}),
     PodStatus(TRUE, "Running", {}, {}, {[Timestamp |-> 2, Window |-> 1, Value |-> 1]}),
     PodStatus(FALSE, "Failed", {}, {}, {[Timestamp |-> 2, Window |-> 1, Value |-> 1]})}
    \cup {PodStatus(FALSE, "Running", c, st, m) :
             c \in PodConditions, st \in {{}} \cup {{t} : t \in Times}, m \in PodSamples}

PodCaseLists == UNION {[1..n -> PodCases] : n \in 0..MaxPods}

PodsOf(cases) ==
    [i \in DOMAIN cases |->
        [Name |-> PodName(i), Deleted |-> cases[i].Deleted, Phase |-> cases[i].Phase,
         Condition |-> cases[i].Condition, StartTime |-> cases[i].StartTime]]

PodMetricsOf(cases) ==
    LET sampled == {i \in DOMAIN cases : ~IsNil(cases[i].Sample)}
    IN  [name \in {PodName(i) : i \in sampled} |->
            Deref(cases[CHOOSE i \in sampled : PodName(i) = name].Sample)]

(***************************************************************************)
(* Gathered metrics handed to one per-source evaluator: every target shape *)
(* (the type and which of the three quantities are set) over one value.    *)
(***************************************************************************)
TargetTypes == {"Value", "AverageValue", "Utilization"}

TargetShapes(t) ==
    {MetricTarget(type, v, av, au) :
        type \in TargetTypes, v \in {NoQuantity, {t}}, av \in {NoQuantity, {t}},
        au \in {NoQuantity, {50}}}

\* sample maps of the pods and resource measurements: no sample, or one of p1
OnePodSamples == {NoMetrics} \cup {OneSample(v) : v \in 0..MaxValue}

\* the ready pod count of an object or external measurement is a pointer
ReadyPodCounts == {{}} \cup {{r} : r \in 0..MaxReady}

(***************************************************************************)
(* What the metrics client and the pod lister hand to a per-source         *)
(* gatherer: listed pods with their containers' requests, the samples      *)
(* fetched for them and possibly for a pod that is not listed, or an       *)
(* error of either.                                                        *)
(***************************************************************************)
FetchedSample == [Timestamp |-> 2, Window |-> 1, Value |-> 1]

\* terminating with a sample, failed, without sample, sampled without ready
\* condition (not yet initialised), sampled and ready
MeasuredPodStatuses ==
    {PodStatus(TRUE, "Running", {}, {}, {FetchedSample}),
     PodStatus(FALSE, "Failed", {}, {}, {}),
     PodStatus(FALSE, "Running", {}, {}, {}),
     PodStatus(FALSE, "Running", {}, {}, {FetchedSample}),
     PodStatus(FALSE, "Running", {[Status |-> "True", LastTransitionTime |-> 0]}, {0},
               {FetchedSample})}

\* the requests of the containers of a pod for the measured resource (none: {})
ContainerCases == {<<{MaxRequest}>>, <<{MaxRequest}, {}>>, <<{1}, {MaxRequest}>>}

MeasuredPodCases == MeasuredPodStatuses \X ContainerCases

MeasuredCaseLists == UNION {[1..n -> MeasuredPodCases] : n \in 0..MaxPods}

MeasuredPodsOf(cases) ==
    [i \in DOMAIN cases |->
        [Name |-> PodName(i), Deleted |-> cases[i][1].Deleted, Phase |-> cases[i][1].Phase,
         Condition |-> cases[i][1].Condition, StartTime |-> cases[i][1].StartTime,
         Containers |-> cases[i][2]]]

\* the samples fetched; with extra, one more of a pod that is not listed
FetchedMetricsOf(cases, extra) ==
    LET listed == PodMetricsOf([i \in DOMAIN cases |-> cases[i][1]])
    IN  [name \in DOMAIN listed \cup (IF extra THEN {"other"} ELSE {}) |->
            IF name \in DOMAIN listed THEN listed[name]
            ELSE [FetchedSample EXCEPT !.Value = 2]]

Outcomes == {"ok", "fetch fails", "listing fails"}

FetchOf(cases, extra, outcome) ==
    IF outcome = "fetch fails"
    THEN [err |-> "metrics unavailable", metrics |-> NoMetrics, timestamp |-> 0]
    ELSE [err |-> "", metrics |-> FetchedMetricsOf(cases, extra), timestamp |-> 2]

ListingOf(cases, outcome) ==
    IF outcome = "listing fails"
    THEN [err |-> "lister unavailable", pods |-> <<>>]
    ELSE [err |-> "", pods |-> MeasuredPodsOf(cases)]

Init ==
    /\ pc = "idle"
    /\ args = [none |-> TRUE]
    /\ ret = [none |-> TRUE]

PlainMetricCall ==
    /\ pc = "idle"
    /\ \E metrics \in SampleMaps, tol \in Tolerances,
          c \in 0..MaxReplicas, t \in 1..MaxTarget, r \in 0..MaxReady :
       \E missing \in SUBSET (PodNames \ DOMAIN metrics) :
       \E ignored \in SUBSET (PodNames \ (DOMAIN metrics \cup missing)) :
          /\ pc' = "getPlainMetricReplicaCount"
          /\ args' = [tolerance |-> tol, metrics |-> metrics,
                      currentReplicas |-> c, targetUtilization |-> t,
                      readyPodCount |-> r, missingPods |-> missing,
                      ignoredPods |-> ignored]
          /\ ret' = getPlainMetricReplicaCount(tol, metrics, c, t, r, missing, ignored)

UsageRatioCall ==
    /\ pc = "idle"
    /\ \E tol \in Tolerances, c \in 0..MaxReplicas, n \in 0..MaxValue,
          t \in 1..MaxTarget, r \in 0..MaxReady :
          /\ pc' = "getUsageRatioReplicaCount"
          /\ args' = [tolerance |-> tol, currentReplicas |-> c, usageRatio |-> <<n, t>>,
                      readyPodCount |-> r]
          /\ ret' = [replicas |-> getUsageRatioReplicaCount(tol, c, <<n, t>>, r)]

ResourceUtilizationCall ==
    /\ pc = "idle"
    /\ \E metrics \in SampleMaps, tol \in Tolerances, c \in {0, MaxReplicas},
          t \in TargetUtilizations, r \in {0, MaxReady}, requests \in RequestMaps :
       \E missing \in SUBSET (PodNames \ DOMAIN metrics) :
       \E ignored \in SUBSET (PodNames \ (DOMAIN metrics \cup missing)) :
          /\ pc' = "resource.Evaluate.GetEvaluation"
          /\ args' = [tolerance |-> tol, metrics |-> metrics, requests |-> requests,
                      currentReplicas |-> c, targetUtilization |-> t,
                      readyPodCount |-> r, missingPods |-> missing,
                      ignoredPods |-> ignored]
          /\ ret' = ResourceUtilizationEvaluation(tol, c, metrics, requests, t, ignored,
                                                  missing, r)

EvaluateCall ==
    /\ pc = "idle"
    /\ \E ms \in MetricLists, c \in {0, MaxReplicas}, tol \in Tolerances :
          /\ pc' = "Evaluate.GetEvaluation"
          /\ args' = [tolerance |-> tol, gatheredMetrics |-> WithReplicas(ms, c)]
          /\ ret' = EvaluateGetEvaluation(tol, WithReplicas(ms, c))

EvaluatorCall ==
    /\ pc = "idle"
    /\ \E ms \in MetricLists, c \in {0, MaxReplicas}, tol \in Tolerances :
          /\ pc' = "Evaluator.GetEvaluation"
          /\ args' = [tolerance |-> tol, gatheredMetrics |-> WithReplicas(ms, c)]
          /\ ret' = EvaluatorGetEvaluation(tol, WithReplicas(ms, c))

EvalNext == EvaluateCall \/ EvaluatorCall

EvalSpec == Init /\ [][EvalNext]_vars

ObjectCall ==
    /\ pc = "idle"
    /\ \E tol \in Tolerances, c \in 0..MaxReplicas, t \in 1..MaxTarget, u \in 0..MaxValue,
          r \in ReadyPodCounts :
       \E target \in TargetShapes(t) :
          /\ pc' = "object.Evaluate.GetEvaluation"
          /\ args' = [tolerance |-> tol, currentReplicas |-> c,
                      gatheredMetric |-> ObjectMetric(target, ScalarMeasurement(u, r))]
          /\ ret' = ObjectGetEvaluation(tol, c, ObjectMetric(target, ScalarMeasurement(u, r)))

ExternalCall ==
    /\ pc = "idle"
    /\ \E tol \in Tolerances, c \in 0..MaxReplicas, t \in 1..MaxTarget, u \in 0..MaxValue,
          r \in ReadyPodCounts :
       \E target \in TargetShapes(t) :
          /\ pc' = "external.Evaluate.GetEvaluation"
          /\ args' = [tolerance |-> tol, currentReplicas |-> c,
                      gatheredMetric |-> ExternalMetric(target, ScalarMeasurement(u, r))]
          /\ ret' = ExternalGetEvaluation(tol, c, ExternalMetric(target, ScalarMeasurement(u, r)))

PodsCall ==
    /\ pc = "idle"
    /\ \E tol \in Tolerances, c \in 0..MaxReplicas, t \in 1..MaxTarget,
          metrics \in OnePodSamples, missing \in {{}, {"p2"}} :
       \E target \in TargetShapes(t) :
          /\ pc' = "pods.Evaluate.GetEvaluation"
          /\ args' = [tolerance |-> tol, currentReplicas |-> c,
                      gatheredMetric |->
                          PodsMetric(target, PodsMeasurement(metrics, 1, {}, missing, 2))]
          /\ ret' = PodsGetEvaluation(tol, c,
                        PodsMetric(target, PodsMeasurement(metrics, 1, {}, missing, 2)))

ResourceCall ==
    /\ pc = "idle"
    /\ \E tol \in Tolerances, c \in 0..MaxReplicas, t \in 1..MaxTarget,
          metrics \in OnePodSamples, requests \in {NoMetrics, OneSample(1)},
          missing \in {{}, {"p2"}} :
       \E target \in TargetShapes(t) :
          /\ pc' = "resource.Evaluate.GetEvaluation"
          /\ args' = [tolerance |-> tol, currentReplicas |-> c,
                      gatheredMetric |->
                          ResourceMetric(target,
                              ResourceMeasurement(metrics, requests, 1, {}, missing, 2))]
          /\ ret' = ResourceGetEvaluation(tol, c,
                        ResourceMetric(target,
                            ResourceMeasurement(metrics, requests, 1, {}, missing, 2)))

SourceNext == ObjectCall \/ ExternalCall \/ PodsCall \/ ResourceCall

SourceSpec == Init /\ [][SourceNext]_vars

\* what a per-source gatherer returns for a spec of the type
MeasurementsOf(type) ==
    CASE type = "Resource" ->
            {ResourceMeasurement(OneSample(v), OneSample(1), 1, {}, {}, 1) : v \in 0..MaxValue}
      [] type = "Pods" ->
            {PodsMeasurement(OneSample(v), 1, {}, {}, 1) : v \in 0..MaxValue}
      [] OTHER ->
            {ScalarMeasurement(u, {r}) : u \in 0..MaxValue, r \in {0, MaxReady}}

GatherThenEvaluateCall ==
    /\ pc = "idle"
    /\ \E type \in {"Object", "Pods", "Resource", "External"}, tol \in Tolerances,
          c \in {0, MaxReplicas} :
       \E target \in TargetShapes(1), measurement \in MeasurementsOf(type) :
          /\ pc' = "metric | evaluate"
          /\ args' = [tolerance |-> tol, currentReplicas |-> c,
                      spec |-> MetricSpec(type, TRUE, target), measurement |-> measurement]
          /\ ret' = GatherThenEvaluate(tol, c, MetricSpec(type, TRUE, target), measurement)

PipelineNext == GatherThenEvaluateCall

PipelineSpec == Init /\ [][PipelineNext]_vars

GatherCall ==
    /\ pc = "idle"
    /\ \E resource \in ScaleTargets, cases \in CaseLists :
          /\ pc' = "Gather.GetMetrics"
          /\ args' = [resource |-> resource, specs |-> SpecsOf(cases),
                      upstream |-> UpstreamOf(cases)]
          /\ ret' = GatherGetMetrics(resource, SpecsOf(cases), UpstreamOf(cases))

GatherNext == GatherCall

GatherSpec == Init /\ [][GatherNext]_vars

\* the two facades, each called once
FacadeNext == GatherCall \/ EvaluateCall

FacadeSpec == Init /\ [][FacadeNext]_vars

PodsGatherCall ==
    /\ pc = "idle"
    /\ \E cases \in MeasuredCaseLists, extra \in BOOLEAN, outcome \in Outcomes, now \in Clock :
          /\ pc' = "pods.Gather.GetMetric"
          /\ args' = [metricName |-> "requests", fetch |-> FetchOf(cases, extra, outcome),
                      listing |-> ListingOf(cases, outcome), now |-> now]
          /\ ret' = PodsGetMetric("requests", FetchOf(cases, extra, outcome),
                                  ListingOf(cases, outcome), now)

ResourceGatherCall ==
    /\ pc = "idle"
    /\ \E cases \in MeasuredCaseLists, extra \in BOOLEAN, outcome \in Outcomes,
          resource \in {"cpu", "memory"}, cpuInit \in Periods, delay \in Delays,
          now \in Clock :
          /\ pc' = "Gatherer.getResourceMetric"
          /\ args' = [resource |-> resource, fetch |-> FetchOf(cases, extra, outcome),
                      listing |-> ListingOf(cases, outcome),
                      cpuInitializationPeriod |-> cpuInit,
                      delayOfInitialReadinessStatus |-> delay, now |-> now]
          /\ ret' = getResourceMetric(resource, FetchOf(cases, extra, outcome),
                                      ListingOf(cases, outcome), cpuInit, delay, now)

RawResourceGatherCall ==
    /\ pc = "idle"
    /\ \E cases \in MeasuredCaseLists, extra \in BOOLEAN, outcome \in Outcomes,
          resource \in {"cpu", "memory"}, cpuInit \in Periods, delay \in Delays,
          now \in Clock :
          /\ pc' = "Gatherer.getRawResourceMetric"
          /\ args' = [resource |-> resource, fetch |-> FetchOf(cases, extra, outcome),
                      listing |-> ListingOf(cases, outcome),
                      cpuInitializationPeriod |-> cpuInit,
                      delayOfInitialReadinessStatus |-> delay, now |-> now]
          /\ ret' = getRawResourceMetric(resource, FetchOf(cases, extra, outcome),
                                         ListingOf(cases, outcome), cpuInit, delay, now)

MeasureNext == PodsGatherCall \/ ResourceGatherCall \/ RawResourceGatherCall

MeasureSpec == Init /\ [][MeasureNext]_vars

\* v1.ResourceCPU, v1.ResourceMemory and the empty name the Pods gatherer passes
ResourceNames == {"cpu", "memory", ""}

GroupPodsCall ==
    /\ pc = "idle"
    /\ \E cases \in PodCaseLists, resource \in ResourceNames,
          cpuInit \in Periods, delay \in Delays, now \in Clock :
          /\ pc' = "groupPods"
          /\ args' = [pods |-> PodsOf(cases), metrics |-> PodMetricsOf(cases),
                      resource |-> resource, cpuInitializationPeriod |-> cpuInit,
                      delayOfInitialReadinessStatus |-> delay, now |-> now]
          /\ ret' = groupPods(PodsOf(cases), PodMetricsOf(cases), resource, cpuInit, delay, now)

GroupNext == GroupPodsCall

GroupSpec == Init /\ [][GroupNext]_vars

CalcNext == PlainMetricCall \/ UsageRatioCall \/ ResourceUtilizationCall

CalcSpec == Init /\ [][CalcNext]_vars

(***************************************************************************)
(* The evaluator facades: what each metric of the call evaluates to.       *)
(***************************************************************************)
InFacade == pc \in {"Evaluate.GetEvaluation", "Evaluator.GetEvaluation"}

OutcomeOf(i) ==
    IF pc = "Evaluate.GetEvaluation"
    THEN EvaluateGetEvaluationOne(args.tolerance, args.gatheredMetrics[i].CurrentReplicas,
                                  args.gatheredMetrics[i])
    ELSE EvaluatorGetEvaluationOne(args.tolerance, args.gatheredMetrics[i].CurrentReplicas,
                                   args.gatheredMetrics[i])

MetricIndexes == DOMAIN args.gatheredMetrics
NoMetricPanics == \A i \in MetricIndexes : ~OutcomeOf(i).panic
Succeeded == {i \in MetricIndexes : ~OutcomeOf(i).panic /\ OutcomeOf(i).err.nil}
FailedMetrics == {i \in MetricIndexes : ~OutcomeOf(i).panic /\ ~OutcomeOf(i).err.nil}
Recommendation(i) == OutcomeOf(i).evaluation.TargetReplicas

\* C1: when at least one gathered metric evaluates without error,
\* Evaluate.GetEvaluation returns the maximum of the target replicas of exactly
\* the metrics that evaluated successfully (negative ones compared as they are).
C1_MaxOfSuccessful ==
    (pc = "Evaluate.GetEvaluation" /\ NoMetricPanics /\ Succeeded # {}) =>
        /\ ~ret.panic
        /\ ~ret.evaluation.nil
        /\ \E i \in Succeeded : ret.evaluation.TargetReplicas = Recommendation(i)
        /\ \A i \in Succeeded : ret.evaluation.TargetReplicas >= Recommendation(i)

\* a call with a failed metric and successful ones, the largest not first and
\* a negative one among them
C1_Witness ==
    /\ pc = "Evaluate.GetEvaluation" /\ NoMetricPanics
    /\ FailedMetrics # {}
    /\ \E i, j \in Succeeded :
          /\ i < j
          /\ Recommendation(i) < 0
          /\ Recommendation(j) > 0
          /\ ret.evaluation = Evaluation(Recommendation(j))

\* C2 (as claimed, of both evaluator facades): GetEvaluation returns an error
\* if and only if every input metric fails; with a successful metric the error
\* is nil and an evaluation is returned.
C2_ErrorIffAllFail ==
    (InFacade /\ NoMetricPanics) =>
        /\ (~ret.err.nil) <=> (Succeeded = {})
        /\ (Succeeded # {}) => (ret.err.nil /\ ~ret.evaluation.nil)

\* C3: when every one of the N >= 1 metrics fails, Evaluate.GetEvaluation
\* returns no evaluation and "invalid evaluations (N invalid out of N), first
\* error is: <e>" with <e> the error of the first metric; a metric of an
\* unknown source type fails with: unknown metric source type "<kind>".
C3_AllInvalidFirstError ==
    (pc = "Evaluate.GetEvaluation") =>
        /\ (MetricIndexes # {} /\ FailedMetrics = MetricIndexes) =>
              /\ ret.evaluation.nil
              /\ ~ret.err.nil
              /\ ret.err.msg = "invalid evaluations ("
                     \o ToString(Len(args.gatheredMetrics)) \o " invalid out of "
                     \o ToString(Len(args.gatheredMetrics)) \o "), first error is: "
                     \o OutcomeOf(1).err.msg
        /\ \A i \in MetricIndexes :
              args.gatheredMetrics[i].Spec.Type = "invalid" =>
                  /\ i \in FailedMetrics
                  /\ OutcomeOf(i).err.msg = "unknown metric source type \"invalid\""

\* three failing metrics, the first of an unknown type, a later one failing
\* with another error
C3_Witness ==
    /\ pc = "Evaluate.GetEvaluation"
    /\ Len(args.gatheredMetrics) = 3
    /\ FailedMetrics = MetricIndexes
    /\ args.gatheredMetrics[1].Spec.Type = "invalid"
    /\ OutcomeOf(3).err.msg # OutcomeOf(1).err.msg
    /\ ret.err.msg =
          "invalid evaluations (3 invalid out of 3), first error is: unknown metric source type \"invalid\""


(***************************************************************************)
(* The gatherer facade                                                     *)
(***************************************************************************)
InGather == pc = "Gather.GetMetrics"

SpecIndexes == 1..Len(args.specs)

\* what getMetric yields for the i-th spec of the call
GatheredOf(i) == getMetric(CurrentReplicasOf(args.resource.Replicas), args.specs[i],
                           args.upstream[i])

GatherSucceeds(i) == GatheredOf(i).err.nil

SuccessfulIndexes == SelectSeq([i \in SpecIndexes |-> i], GatherSucceeds)

Supported == args.resource.Kind \in SupportedKinds

\* C4: when the scale target is supported and at least one spec is gathered
\* successfully, Gather.GetMetrics returns a nil error and exactly the metrics
\* of the successful specs, one each, in the order of the input specs.
C4_SuccessfulSubsetInOrder ==
    (InGather /\ Supported /\ \E i \in SpecIndexes : GatherSucceeds(i)) =>
        /\ ret.err.nil
        /\ Len(ret.metrics) = Len(SuccessfulIndexes)
        /\ \A k \in 1..Len(SuccessfulIndexes) :
              /\ ret.metrics[k] = GatheredOf(SuccessfulIndexes[k]).metric
              /\ ret.metrics[k].Spec = args.specs[SuccessfulIndexes[k]]

C4_Witness ==
    /\ InGather /\ Supported /\ Len(args.specs) = 3
    /\ GatherSucceeds(1) /\ ~GatherSucceeds(2) /\ GatherSucceeds(3)
    /\ args.specs[1].Type # args.specs[3].Type
    /\ Len(ret.metrics) = 2
    /\ ret.metrics[1].Spec = args.specs[1] /\ ret.metrics[2].Spec = args.specs[3]

\* C5: on a supported scale target Gather.GetMetrics returns an error exactly
\* when every spec fails; no metrics are then returned and, with N >= 1 specs,
\* the error reads 'invalid metrics (N invalid out of N), first error is: <e>'
\* with <e> the error of the first spec.
C5_ErrorIffAllInvalid ==
    (InGather /\ Supported) =>
        /\ ~ret.err.nil <=> \A i \in SpecIndexes : ~GatherSucceeds(i)
        /\ ~ret.err.nil => ret.metrics = <<>>
        /\ (~ret.err.nil /\ Len(args.specs) >= 1) =>
              ret.err.msg = "invalid metrics (" \o ToString(Len(args.specs))
                            \o " invalid out of " \o ToString(Len(args.specs))
                            \o "), first error is: " \o GatheredOf(1).err.msg

C5_Witness ==
    /\ InGather /\ Supported /\ Len(args.specs) = 2
    /\ ~GatherSucceeds(1) /\ ~GatherSucceeds(2)
    /\ GatheredOf(1).err # GatheredOf(2).err
    /\ ret.err.msg = "invalid metrics (2 invalid out of 2), first error is: failed to get pods metric: unable to get pods"

\* C6: for a scale target of an unsupported kind Gather.GetMetrics fails with
\* 'Unsupported resource of type <kind>', returned as is, and no per-source
\* gatherer has been invoked.
C6_UnsupportedResourceFirst ==
    (InGather /\ ~Supported) =>
        /\ ~ret.err.nil
        /\ ret.err.msg = "Unsupported resource of type *v1." \o args.resource.Kind
        /\ ret.calls = <<>>
        /\ ret.metrics = <<>>

C6_Witness ==
    /\ InGather /\ args.resource.Kind = "DaemonSet"
    /\ Len(args.specs) = 2 /\ GatherSucceeds(1) /\ ~GatherSucceeds(2)
    /\ ret.err = Error("Unsupported resource of type *v1.DaemonSet")
    /\ ret.calls = <<>>


(***************************************************************************)
(* The classification of pods                                              *)
(***************************************************************************)
InGroupPods == pc = "groupPods"

\* the listed pods that are neither being deleted nor failed
LivePods == {i \in DOMAIN args.pods : ~args.pods[i].Deleted /\ args.pods[i].Phase # "Failed"}

\* C7: groupPods puts every listed pod that has no deletion timestamp and is not
\* Failed in exactly one bucket: readyPodCount + |ignoredPods| + |missingPods|
\* is the number of those pods.
C7_BucketsPartitionLivePods ==
    InGroupPods =>
        ret.readyPodCount + Cardinality(ret.ignoredPods) + Cardinality(ret.missingPods)
            = Cardinality(LivePods)

C7_Witness ==
    /\ InGroupPods /\ Len(args.pods) = 2 /\ args.resource = "cpu"
    /\ Cardinality(LivePods) = 1
    /\ \E i \in DOMAIN args.pods : args.pods[i].Phase = "Failed"
    /\ Cardinality(ret.ignoredPods) = 1 /\ ret.readyPodCount = 0 /\ ret.missingPods = {}


(***************************************************************************)
(* The ratio engine                                                        *)
(***************************************************************************)
InPlainMetric == pc = "getPlainMetricReplicaCount" /\ ~ret.panic

InUtilization == pc = "resource.Evaluate.GetEvaluation" /\ ret.err.nil

InUsageRatio == pc = "getUsageRatioReplicaCount"

\* the base ratio u of the call, and the ratio u' of the sample map it leaves
BaseRatio ==
    IF pc = "getPlainMetricReplicaCount"
    THEN GetMetricUtilizationRatio(args.metrics, args.targetUtilization)
    ELSE GetResourceUtilizationRatio(args.metrics, args.requests, args.targetUtilization)

CorrectedRatio ==
    IF pc = "getPlainMetricReplicaCount"
    THEN GetMetricUtilizationRatio(ret.metrics, args.targetUtilization)
    ELSE GetResourceUtilizationRatio(ret.metrics, args.requests, args.targetUtilization)

\* the sign of 1 - u
Direction(u) == IF u[1] < u[2] THEN 1 ELSE IF u[1] > u[2] THEN -1 ELSE 0

ReachesFillIn ==
    args.missingPods # {} \/ (args.ignoredPods # {} /\ Direction(BaseRatio) = -1)

ReplicasReturned == IF InUtilization THEN ret.evaluation.TargetReplicas ELSE ret.replicas

\* r = ceil(u * k)
IsCeilTimes(r, u, k) == r * u[2] >= u[1] * k /\ (r - 1) * u[2] < u[1] * k

\* C8: direction-flip guard: when a plain-metric or utilization-ratio
\* evaluation reaches the fill-in correction and the sign of 1 - u for the base
\* ratio differs from the sign of 1 - u' for the corrected ratio (u exactly 1
\* and u' not included), the result is the current replica count.
C8_DirectionFlipGuard ==
    ((InPlainMetric \/ InUtilization) /\ ReachesFillIn
        /\ Direction(BaseRatio) # Direction(CorrectedRatio)) =>
        ReplicasReturned = args.currentReplicas

\* C9: tolerance band: on the plain-metric path and on the usage-ratio-replica
\* path, a base ratio with |1 - u| <= tolerance yields the current replica
\* count, whatever the current replica count (0 included) and the missing and
\* ignored sets are.
C9_ToleranceBand ==
    /\ (InPlainMetric /\ WithinTolerance(BaseRatio, args.tolerance)) =>
          ret.replicas = args.currentReplicas
    /\ (InUsageRatio /\ WithinTolerance(args.usageRatio, args.tolerance)) =>
          ret.replicas = args.currentReplicas

\* C10: in plain-metric and utilization-ratio evaluation without missing pods,
\* and without ignored pods or with a base ratio u <= 1, nothing is filled in
\* and the result is C when |1 - u| <= tolerance and ceil(u * R) otherwise, R
\* being the ready pod count.
C10_NoFillInResult ==
    ((InPlainMetric \/ InUtilization) /\ args.missingPods = {}
        /\ (args.ignoredPods = {} \/ Direction(BaseRatio) >= 0)) =>
        /\ ret.metrics = args.metrics
        /\ IF WithinTolerance(BaseRatio, args.tolerance)
           THEN ReplicasReturned = args.currentReplicas
           ELSE IsCeilTimes(ReplicasReturned, BaseRatio, args.readyPodCount)

C10_Witness ==
    /\ InPlainMetric /\ args.missingPods = {} /\ args.ignoredPods # {}
    /\ Direction(BaseRatio) = 1 /\ ~WithinTolerance(BaseRatio, args.tolerance)
    /\ args.readyPodCount = 3 /\ args.currentReplicas = 1
    /\ Cardinality(DOMAIN args.metrics) = 1
    /\ ret.replicas = 2


\* C11: the usage-ratio-replica helper returns ceil(u) when C = 0, whatever the
\* tolerance and the ready pod count P are; C when C # 0 and |1 - u| <=
\* tolerance; and ceil(u * P) otherwise.
C11_UsageRatioReplicaCount ==
    InUsageRatio =>
        IF args.currentReplicas = 0
        THEN IsCeilTimes(ret.replicas, args.usageRatio, 1)
        ELSE IF WithinTolerance(args.usageRatio, args.tolerance)
             THEN ret.replicas = args.currentReplicas
             ELSE IsCeilTimes(ret.replicas, args.usageRatio, args.readyPodCount)

\* scale from zero with a ratio inside the tolerance band
C11_Witness ==
    /\ InUsageRatio /\ args.currentReplicas = 0
    /\ args.usageRatio = <<3, 2>> /\ args.tolerance = <<1, 2>>
    /\ args.readyPodCount = 3
    /\ ret.replicas = 2


(***************************************************************************)
(* The per-source evaluators                                               *)
(***************************************************************************)
TargetOf == args.gatheredMetric.Spec.Target

\* the call takes the per-pod averaging branch of the object or external evaluator
InPerPodAveraging ==
    \/ /\ pc = "object.Evaluate.GetEvaluation"
       /\ TargetOf.Type = "AverageValue" /\ TargetOf.AverageValue # {}
    \/ /\ pc = "external.Evaluate.GetEvaluation"
       /\ TargetOf.AverageValue # {}

Utilization ==
    IF pc = "object.Evaluate.GetEvaluation" THEN args.gatheredMetric.Object.Utilization
    ELSE args.gatheredMetric.External.Utilization

ReadyPodCountGiven ==
    IF pc = "object.Evaluate.GetEvaluation" THEN args.gatheredMetric.Object.ReadyPodCount
    ELSE args.gatheredMetric.External.ReadyPodCount

\* C12: for Object/AverageValue and External/AverageValue metrics with
\* utilization U, per-pod target T and current replicas C > 0, the result is
\* ceil(U / T) when |1 - U / (T * C)| > tolerance and C otherwise, whatever the
\* ready pod count is (set or not).
C12_PerPodAveraging ==
    (InPerPodAveraging /\ args.currentReplicas > 0) =>
        LET U == Utilization
            T == CHOOSE t \in TargetOf.AverageValue : TRUE
            C == args.currentReplicas
            tol == args.tolerance
        IN  /\ ~ret.panic /\ ret.err.nil
            /\ IF (IF U > T * C THEN U - T * C ELSE T * C - U) * tol[2] > tol[1] * T * C
               THEN IsCeilTimes(ret.evaluation.TargetReplicas, <<U, T>>, 1)
               ELSE ret.evaluation.TargetReplicas = C

\* an external metric outside the band, without a ready pod count, though
\* U / T alone is 1
C12_Witness ==
    /\ pc = "external.Evaluate.GetEvaluation" /\ InPerPodAveraging
    /\ args.currentReplicas = 2 /\ Utilization = 1 /\ TargetOf.AverageValue = {1}
    /\ args.tolerance = <<0, 1>> /\ ReadyPodCountGiven = {} /\ TargetOf.Value # {}
    /\ ret.evaluation.TargetReplicas = 1


(***************************************************************************)
(* The fill-in of missing pods                                             *)
(***************************************************************************)
\* C13: in plain-metric mode with missing pods, every missing pod is given the
\* per-pod target T as its sample when the base ratio u < 1 and 0 when u > 1;
\* when u = 1 exactly no missing pod is given a sample.
C13_PlainMissingFill ==
    (InPlainMetric /\ args.missingPods # {}) =>
        CASE Direction(BaseRatio) = 1 ->
                \A p \in args.missingPods :
                    p \in DOMAIN ret.metrics /\ ret.metrics[p] = args.targetUtilization
          [] Direction(BaseRatio) = -1 ->
                \A p \in args.missingPods :
                    p \in DOMAIN ret.metrics /\ ret.metrics[p] = 0
          [] OTHER -> args.missingPods \cap DOMAIN ret.metrics = {}


\* the utilization-ratio evaluation got past its first ratio computation
UtilizationRatioDefined ==
    /\ pc = "resource.Evaluate.GetEvaluation"
    /\ SumValues(args.requests, DOMAIN args.metrics \cap DOMAIN args.requests) # 0

\* Q[pod] as Go reads the map: 0 for a pod without an entry
RequestOf(p) == IF p \in DOMAIN args.requests THEN args.requests[p] ELSE 0

\* C14: in utilization-ratio mode with missing pods, every missing pod is given
\* its own request Q[pod] as its sample when the base ratio u < 1 and 0 when
\* u > 1; when u = 1 no missing pod is given a sample; the samples of pods that
\* had one are unchanged.
C14_UtilizationMissingFill ==
    (UtilizationRatioDefined /\ args.missingPods # {}) =>
        /\ CASE Direction(BaseRatio) = 1 ->
                   \A p \in args.missingPods :
                       p \in DOMAIN ret.metrics /\ ret.metrics[p] = RequestOf(p)
             [] Direction(BaseRatio) = -1 ->
                   \A p \in args.missingPods :
                       p \in DOMAIN ret.metrics /\ ret.metrics[p] = 0
             [] OTHER -> args.missingPods \cap DOMAIN ret.metrics = {}
        /\ \A p \in DOMAIN args.metrics :
              p \in DOMAIN ret.metrics /\ ret.metrics[p] = args.metrics[p]

\* a base ratio of exactly 1 with two missing pods, one of them with a request
C14_Witness ==
    /\ UtilizationRatioDefined /\ Direction(BaseRatio) = 0
    /\ Cardinality(args.missingPods) = 2
    /\ \E p \in args.missingPods : RequestOf(p) = 1
    /\ ret.err.nil /\ ret.metrics = args.metrics
    /\ ret.evaluation.TargetReplicas = args.currentReplicas


(***************************************************************************)
(* Failure of the utilization-ratio evaluation                             *)
(***************************************************************************)
InResourceUtilization == pc = "resource.Evaluate.GetEvaluation"

\* the pods with a sample in the map the evaluation leaves and an entry in Q
MatchedInAugmented == DOMAIN ret.metrics \cap DOMAIN args.requests

UnsupportedTargetShape ==
    CASE pc = "object.Evaluate.GetEvaluation" ->
            TargetOf.Type \notin {"Value", "AverageValue"}
      [] pc = "external.Evaluate.GetEvaluation" ->
            TargetOf.AverageValue = {} /\ TargetOf.Value = {}
      [] pc = "resource.Evaluate.GetEvaluation" ->
            TargetOf.AverageValue = {} /\ TargetOf.AverageUtilization = {}
      [] pc = "pods.Evaluate.GetEvaluation" ->
            TargetOf.AverageValue = {}
      [] OTHER -> FALSE

InvalidMetricSource ==
    {"invalid " \o kind \o " metric source: " \o rest :
        kind \in {"object", "external", "resource", "pods"},
        rest \in {"neither a value target nor an average value target was set",
                  "neither a utilization target nor a value target was set"}}

\* C16: each of the four per-source evaluators, given a gathered metric whose
\* target has none of the shapes it supports, returns an "invalid ... metric
\* source" error and no evaluation; it neither crashes nor returns a replica
\* count.
C16_InvalidTargetShapeRejected ==
    UnsupportedTargetShape =>
        /\ ~ret.panic
        /\ ~ret.err.nil /\ ret.err.msg \in InvalidMetricSource
        /\ ret.evaluation.nil


\* C18: on a supported scale target Gather.GetMetrics invokes the per-source
\* gatherers one after the other in the order of the specs: the sequence of
\* invocations holds, for every spec whose target passes the prechecks, exactly
\* one invocation, of the gatherer of that spec, in increasing spec order,
\* whether or not earlier specs failed; every spec is counted once, as a
\* returned metric or as an invalid one.
C18_SequentialInOrderNoShortCircuit ==
    (InGather /\ Supported) =>
        LET invoking == {i \in SpecIndexes : GatheredOf(i).calls # <<>>}
        IN  /\ Len(ret.calls) = Cardinality(invoking)
            /\ \A k \in DOMAIN ret.calls :
                  /\ ret.calls[k].spec \in invoking
                  /\ GatheredOf(ret.calls[k].spec).calls = <<ret.calls[k].gatherer>>
            /\ \A k \in 1..(Len(ret.calls) - 1) : ret.calls[k].spec < ret.calls[k + 1].spec
            /\ ret.err.nil =>
                  Len(ret.metrics) = Cardinality({i \in SpecIndexes : GatherSucceeds(i)})
            /\ ~ret.err.nil => \A i \in SpecIndexes : ~GatherSucceeds(i)

\* the gatherer of the first spec fails, the second spec fails its precheck
\* and the gatherer of the third spec is still invoked
C18_Witness ==
    /\ InGather /\ Supported /\ Len(args.specs) = 3
    /\ ~GatherSucceeds(1) /\ GatheredOf(1).calls # <<>>
    /\ ~GatherSucceeds(2) /\ GatheredOf(2).calls = <<>>
    /\ GatherSucceeds(3)
    /\ Len(ret.calls) = 2 /\ ret.calls[1].spec = 1 /\ ret.calls[2].spec = 3
    /\ Len(ret.metrics) = 1

\* the names of the live pods with, respectively without, a sample
SampledLivePods == {args.pods[i].Name : i \in {j \in LivePods : args.pods[j].Name \in DOMAIN args.metrics}}

UnsampledLivePods == {args.pods[i].Name : i \in {j \in LivePods : args.pods[j].Name \notin DOMAIN args.metrics}}

\* C19: in every classification groupPods returns, the missing set is exactly
\* the set of the pods without deletion timestamp, not Failed, that have no
\* entry in the sample map; every ignored pod has an entry in the sample map;
\* no pod is both ignored and missing.
C19_MissingExactIgnoredSampled ==
    InGroupPods =>
        /\ ret.missingPods = UnsampledLivePods
        /\ ret.ignoredPods \subseteq DOMAIN args.metrics
        /\ ret.ignoredPods \cap ret.missingPods = {}

\* a Failed pod without sample, a live one without sample and, for CPU, a
\* sampled pod that is ignored
C19_Witness ==
    /\ InGroupPods /\ args.resource = "cpu" /\ Len(args.pods) = MaxPods
    /\ \E i, j \in DOMAIN args.pods :
          /\ i # j
          /\ args.pods[i].Name \notin DOMAIN args.metrics /\ i \in LivePods
          /\ ret.missingPods = {args.pods[i].Name}
          /\ ret.ignoredPods = {args.pods[j].Name}

\* C20: when the resource is not CPU (memory, or the empty name), groupPods
\* ignores no pod and counts as ready every pod without deletion timestamp,
\* not Failed, that has a sample, whatever the pod's readiness condition and
\* start time and the two timing constants.
C20_NonCpuNeverIgnores ==
    (InGroupPods /\ args.resource # "cpu") =>
        /\ ret.ignoredPods = {}
        /\ ret.readyPodCount = Cardinality(SampledLivePods)

\* the empty resource name, with two sampled pods CPU would have ignored: one
\* without ready condition, one unready
C20_Witness ==
    /\ InGroupPods /\ args.resource = "" /\ Len(args.pods) = 2
    /\ args.pods[1].Condition = {}
    /\ args.pods[2].Condition # {} /\ \A c \in args.pods[2].Condition : c.Status = "False"
    /\ \A i \in DOMAIN args.pods :
          ignorePod(args.pods[i], args.metrics[args.pods[i].Name],
                    args.cpuInitializationPeriod, args.delayOfInitialReadinessStatus, args.now)
    /\ ret.readyPodCount = 2 /\ ret.ignoredPods = {}

(***************************************************************************)
(* The per-source gatherers                                                *)
(***************************************************************************)
\* the metrics fetch and the pod listing both succeeded and no pod is listed
NoPodsListed == args.fetch.err = "" /\ args.listing.err = "" /\ args.listing.pods = <<>>

\* C17: when the metrics fetch and the pod listing succeed and the pod list is
\* empty, the Pods gatherer returns a measurement with ReadyPodCount 0 and
\* TotalPods 0 and no error, and the Resource gatherer returns an error and no
\* measurement.
C17_EmptyPodList ==
    /\ (pc = "pods.Gather.GetMetric" /\ NoPodsListed) =>
          /\ ret.err.nil
          /\ ret.metric # NilMeasurement
          /\ ret.metric.ReadyPodCount = 0 /\ ret.metric.TotalPods = 0
    /\ (pc = "Gatherer.getResourceMetric" /\ NoPodsListed) =>
          /\ ~ret.err.nil
          /\ ret.metric = NilMeasurement

\* the Pods gatherer with a sample fetched and no pod listed
C17_Witness ==
    /\ pc = "pods.Gather.GetMetric" /\ NoPodsListed
    /\ DOMAIN args.fetch.metrics = {"other"}
    /\ ret.err = NoError /\ ret.metric.TotalPods = 0 /\ ret.metric.ReadyPodCount = 0


(***************************************************************************)
(* The readiness test of groupPods for CPU                                 *)
(***************************************************************************)
\* the listed pods groupPods does not skip and finds a sample for
SampledLive == {i \in LivePods : args.pods[i].Name \in DOMAIN args.metrics}

HasReadiness(i) == ~IsNil(args.pods[i].Condition) /\ ~IsNil(args.pods[i].StartTime)

ConditionOf(i) == Deref(args.pods[i].Condition)

StartTimeOf(i) == Deref(args.pods[i].StartTime)

SampleOf(i) == args.metrics[args.pods[i].Name]

\* start time + cpuInitializationPeriod is still in the future
Initializing(i) == StartTimeOf(i) + args.cpuInitializationPeriod > args.now

Ignored(i) == args.pods[i].Name \in ret.ignoredPods

\* the pods counted ready are the sampled live pods that are not ignored
ReadyAreTheRest ==
    ret.readyPodCount = Cardinality({i \in SampledLive : ~Ignored(i)})

\* C21: for CPU, a pod without deletion timestamp, not Failed, with a sample, a
\* Ready condition and a start time, whose start time + cpuInitializationPeriod
\* is in the future, is ignored exactly when its Ready status is False or its
\* sample is older than last transition + window, and is counted ready
\* otherwise; such a pod without Ready condition or start time is ignored.
C21_InitializingPodIgnored ==
    (InGroupPods /\ args.resource = "cpu") =>
        /\ \A i \in SampledLive :
              /\ ~HasReadiness(i) => Ignored(i)
              /\ (HasReadiness(i) /\ Initializing(i)) =>
                    (Ignored(i) <=>
                        \/ ConditionOf(i).Status = "False"
                        \/ SampleOf(i).Timestamp
                              < ConditionOf(i).LastTransitionTime + SampleOf(i).Window)
        /\ ReadyAreTheRest

\* two initializing pods: a ready one with a stale sample, ignored, and a ready
\* one with a fresh sample, counted
C21_Witness ==
    /\ InGroupPods /\ args.resource = "cpu" /\ Len(args.pods) = 2
    /\ \A i \in {1, 2} : i \in SampledLive /\ HasReadiness(i) /\ Initializing(i)
                         /\ ConditionOf(i).Status = "True"
    /\ SampleOf(1).Timestamp < ConditionOf(1).LastTransitionTime + SampleOf(1).Window
    /\ SampleOf(2).Timestamp >= ConditionOf(2).LastTransitionTime + SampleOf(2).Window
    /\ ret.ignoredPods = {args.pods[1].Name} /\ ret.readyPodCount = 1

\* C22: for CPU, a pod without deletion timestamp, not Failed, with a sample, a
\* Ready condition and a start time, whose start time + cpuInitializationPeriod
\* is not in the future, is ignored exactly when its Ready status is False and
\* start time + delayOfInitialReadinessStatus is after the last transition; the
\* timestamp of the sample plays no role, and the pods not ignored are counted.
C22_InitializedPodIgnored ==
    (InGroupPods /\ args.resource = "cpu") =>
        /\ \A i \in SampledLive :
              (HasReadiness(i) /\ ~Initializing(i)) =>
                    (Ignored(i) <=>
                        /\ ConditionOf(i).Status = "False"
                        /\ StartTimeOf(i) + args.delayOfInitialReadinessStatus
                              > ConditionOf(i).LastTransitionTime)
        /\ ReadyAreTheRest

\* two unready pods past initialization with stale samples: one whose last
\* transition is before start + delay, ignored, one whose last transition is
\* not, counted
C22_Witness ==
    /\ InGroupPods /\ args.resource = "cpu" /\ Len(args.pods) = 2
    /\ \A i \in {1, 2} : /\ i \in SampledLive /\ HasReadiness(i) /\ ~Initializing(i)
                         /\ ConditionOf(i).Status = "False"
                         /\ SampleOf(i).Timestamp
                               < ConditionOf(i).LastTransitionTime + SampleOf(i).Window
    /\ StartTimeOf(1) + args.delayOfInitialReadinessStatus > ConditionOf(1).LastTransitionTime
    /\ StartTimeOf(2) + args.delayOfInitialReadinessStatus <= ConditionOf(2).LastTransitionTime
    /\ ret.ignoredPods = {args.pods[1].Name} /\ ret.readyPodCount = 1


(***************************************************************************)
(* The measurement of the Resource gatherer                                *)
(***************************************************************************)
ResourceGathered ==
    pc \in {"Gatherer.getResourceMetric", "Gatherer.getRawResourceMetric"} /\ ret.err.nil

\* C23: in every measurement the Resource gatherer returns no ignored pod has
\* an entry in the sample map, and every sample the metrics client returned
\* for a pod outside the ignored set is present with its original value;
\* nothing is added.
C23_IgnoredSamplesRemovedOnly ==
    ResourceGathered =>
        /\ ret.metric.IgnoredPods \cap DOMAIN ret.metric.PodMetricsInfo = {}
        /\ DOMAIN ret.metric.PodMetricsInfo
              = (DOMAIN args.fetch.metrics) \ ret.metric.IgnoredPods
        /\ \A p \in DOMAIN ret.metric.PodMetricsInfo :
              ret.metric.PodMetricsInfo[p] = args.fetch.metrics[p]

\* CPU: the sample of an ignored pod is gone, that of a ready pod and that of
\* a pod that is not listed are kept
C23_Witness ==
    /\ ResourceGathered /\ args.resource = "cpu" /\ pc = "Gatherer.getResourceMetric"
    /\ ret.metric.IgnoredPods = {"p1"} /\ ret.metric.ReadyPodCount = 1
    /\ DOMAIN args.fetch.metrics = {"p1", "p2", "other"}
    /\ DOMAIN ret.metric.PodMetricsInfo = {"p2", "other"}
    /\ ret.metric.PodMetricsInfo["other"].Value = 2


\* the Resource gatherer in utilization mode, past the fetch, the listing and
\* the test of the empty list
RequestsCalculated ==
    /\ pc = "Gatherer.getResourceMetric"
    /\ args.fetch.err = "" /\ args.listing.err = "" /\ args.listing.pods # <<>>

\* a container of a listed pod declares no request for the resource
RequestMissing ==
    \E i \in DOMAIN args.listing.pods :
        \E k \in DOMAIN args.listing.pods[i].Containers :
            args.listing.pods[i].Containers[k] = {}

\* the requests the containers of a pod declare, added up
RECURSIVE DeclaredTotal(_)
DeclaredTotal(containers) ==
    IF containers = <<>> THEN 0
    ELSE (CHOOSE v \in Head(containers) : TRUE) + DeclaredTotal(Tail(containers))

\* C25: the requests map of the Resource gatherer in utilization mode has an
\* entry for every listed pod and no other, the sum of the requests of the
\* pod's containers; if a container of any listed pod, skipped by groupPods or
\* not, declares no request, the gatherer fails with 'missing request for
\* <resource>' and returns no measurement.
C25_RequestsOfEveryListedPod ==
    RequestsCalculated =>
        /\ RequestMissing =>
              /\ ret.err = Error("missing request for " \o args.resource)
              /\ ret.metric = NilMeasurement
        /\ ~RequestMissing =>
              /\ ret.err.nil
              /\ DOMAIN ret.metric.Requests
                    = {args.listing.pods[i].Name : i \in DOMAIN args.listing.pods}
              /\ \A i \in DOMAIN args.listing.pods :
                    ret.metric.Requests[args.listing.pods[i].Name]
                        = DeclaredTotal(args.listing.pods[i].Containers)

\* a Failed pod with two containers and a live pod: both have their entry
C25_Witness ==
    /\ RequestsCalculated /\ ~RequestMissing /\ Len(args.listing.pods) = 2
    /\ args.listing.pods[1].Phase = "Failed"
    /\ Len(args.listing.pods[1].Containers) = 2
    /\ args.listing.pods[2].Phase = "Running" /\ ~args.listing.pods[2].Deleted
    /\ ret.err.nil
    /\ ret.metric.Requests["p1"] = 1 + MaxRequest
    /\ ret.metric.Requests["p2"] = MaxRequest


(***************************************************************************)
(* The correction path                                                     *)
(***************************************************************************)
\* neither the tolerance band on u' nor the direction-flip guard applies
CorrectionDecides ==
    /\ ~WithinTolerance(CorrectedRatio, args.tolerance)
    /\ ~(Direction(BaseRatio) = 1 /\ Direction(CorrectedRatio) = -1)
    /\ ~(Direction(BaseRatio) = -1 /\ Direction(CorrectedRatio) = 1)

\* C24: on the correction path of a plain-metric or utilization-ratio
\* evaluation the ignored pods are given a sample, of value 0, exactly when the
\* base ratio u > 1 and otherwise none of them enters the sample map; the map
\* then holds the original samples plus filled missing pods plus rebalanced
\* ignored pods, and when neither the tolerance band nor the direction-flip
\* guard applies the result is ceil(u' * n) with n the size of that map.
C24_CorrectionOverAugmentedMap ==
    ((InPlainMetric \/ InUtilization) /\ ReachesFillIn) =>
        /\ Direction(BaseRatio) = -1 =>
              \A p \in args.ignoredPods : p \in DOMAIN ret.metrics /\ ret.metrics[p] = 0
        /\ Direction(BaseRatio) # -1 => args.ignoredPods \cap DOMAIN ret.metrics = {}
        /\ DOMAIN args.metrics \subseteq DOMAIN ret.metrics
        /\ DOMAIN ret.metrics
              \subseteq DOMAIN args.metrics \cup args.missingPods \cup args.ignoredPods
        /\ CorrectionDecides =>
              IsCeilTimes(ReplicasReturned, CorrectedRatio, Cardinality(DOMAIN ret.metrics))

\* utilization mode, u > 1: one sample, one missing and one ignored pod make a
\* map of three, and the result is ceil(u' * 3) although no pod is ready
C24_Witness ==
    /\ InUtilization /\ Direction(BaseRatio) = -1
    /\ Cardinality(DOMAIN args.metrics) = 1
    /\ Cardinality(args.missingPods) = 1 /\ Cardinality(args.ignoredPods) = 1
    /\ args.readyPodCount = 0 /\ args.currentReplicas = 0
    /\ Cardinality(DOMAIN ret.metrics) = 3
    /\ CorrectionDecides
    /\ ReplicasReturned > 0


(***************************************************************************)
(* The gathered metrics                                                    *)
(***************************************************************************)
\* the replica count of the scale target, 0 when it is unset
TargetReplicaCount ==
    IF args.resource.Replicas = {} THEN 0 ELSE CHOOSE r \in args.resource.Replicas : TRUE

\* the kinds of the measurements a gathered metric carries
PayloadKinds(m) ==
    {kind \in {"Resource", "Pods", "Object", "External"} :
        CASE kind = "Resource" -> m.Resource # NilMeasurement
          [] kind = "Pods" -> m.Pods # NilMeasurement
          [] kind = "Object" -> m.Object # NilMeasurement
          [] kind = "External" -> m.External # NilMeasurement}

\* C26: every gathered metric Gather.GetMetrics returns carries the spec it
\* was gathered for, a CurrentReplicas equal to the replica count of the scale
\* target (0 when unset), the same in all metrics of the call, and exactly one
\* measurement, of the kind of the spec's type.
C26_GatheredMetricShape ==
    (InGather /\ ret.err.nil) =>
        /\ Len(ret.metrics) = Len(SuccessfulIndexes)
        /\ \A k \in DOMAIN ret.metrics :
              /\ ret.metrics[k].Spec = args.specs[SuccessfulIndexes[k]]
              /\ ret.metrics[k].CurrentReplicas = TargetReplicaCount
              /\ PayloadKinds(ret.metrics[k]) = {ret.metrics[k].Spec.Type}

\* a scale target with replicas set and two metrics of different sources
C26_Witness ==
    /\ InGather /\ ret.err.nil /\ args.resource.Replicas = {MaxReplicas}
    /\ Len(args.specs) = 3 /\ Len(ret.metrics) = 2
    /\ ret.metrics[1].Spec.Type = "Pods" /\ ret.metrics[2].Spec.Type = "External"
    /\ ret.metrics[1].CurrentReplicas = MaxReplicas
    /\ ret.metrics[2].CurrentReplicas = MaxReplicas
    /\ ret.metrics[1].Pods # NilMeasurement /\ ret.metrics[2].External # NilMeasurement


(***************************************************************************)
(* The sample map across an evaluation                                     *)
(***************************************************************************)
InRatioEngine == pc \in {"getPlainMetricReplicaCount", "resource.Evaluate.GetEvaluation"}

\* the base ratio exists: the plain mean does not divide by zero, the
\* utilization ratio has matching requests
BaseRatioDefined ==
    IF pc = "getPlainMetricReplicaCount" THEN args.metrics # NoMetrics
    ELSE UtilizationRatioDefined

Rebalancing == BaseRatioDefined /\ args.ignoredPods # {} /\ Direction(BaseRatio) = -1

\* C27: an evaluation changes the sample map of the gathered metric only in
\* the fill-in step: without missing pods and without rebalancing of ignored
\* pods the map is left as it was; otherwise only entries of pods of the
\* missing set, and when rebalancing of the ignored set, are written, and the
\* samples of all other pods are unchanged.
C27_SampleMapFrame ==
    InRatioEngine =>
        /\ (~BaseRatioDefined \/ (args.missingPods = {} /\ ~Rebalancing)) =>
              ret.metrics = args.metrics
        /\ \A p \in DOMAIN args.metrics \ (args.missingPods \cup args.ignoredPods) :
              p \in DOMAIN ret.metrics /\ ret.metrics[p] = args.metrics[p]
        /\ (DOMAIN ret.metrics) \ (DOMAIN args.metrics)
              \subseteq args.missingPods \cup (IF Rebalancing THEN args.ignoredPods ELSE {})

\* plain mode, u < 1: the missing pod is given the target, the sample of the
\* other pod and the ignored pod are left alone
C27_Witness ==
    /\ pc = "getPlainMetricReplicaCount"
    /\ args.metrics = [p \in {"p1"} |-> 1] /\ args.targetUtilization = 2
    /\ args.missingPods = {"p2"} /\ args.ignoredPods = {"p3"}
    /\ ret.metrics = [p \in {"p1", "p2"} |-> IF p = "p1" THEN 1 ELSE 2]


(***************************************************************************)
(* Gathering and evaluating one spec                                       *)
(***************************************************************************)
InPipeline == pc = "metric | evaluate"

\* C28: every spec whose target passes the precheck of the gatherer facade, so
\* that a metric is gathered, is accepted by the evaluator of its source: the
\* evaluator does not reject the gathered metric with an 'invalid ... metric
\* source' error; in particular not for an External spec whose only target
\* field is AverageUtilization.
C28_GatherAndEvaluateAgree ==
    (InPipeline /\ ret.evaluated) =>
        (ret.outcome.err.nil \/ ret.outcome.err.msg \notin InvalidMetricSource)


(***************************************************************************)
(* The facades on an empty list                                            *)
(***************************************************************************)
NoSpecs == pc = "Gather.GetMetrics" /\ args.specs = <<>>

NoGatheredMetrics == pc = "Evaluate.GetEvaluation" /\ args.gatheredMetrics = <<>>

ZeroOfZeroMetrics == Error("invalid metrics (0 invalid out of 0), first error is: <nil>")

ZeroOfZeroEvaluations ==
    Error("invalid evaluations (0 invalid out of 0), first error is: <nil>")

\* a facade returned neither a value nor an error
EmptySuccess ==
    \/ pc = "Gather.GetMetrics" /\ ret.err.nil /\ ret.metrics = <<>>
    \/ pc = "Evaluate.GetEvaluation" /\ ~ret.panic /\ ret.err.nil /\ ret.evaluation.nil

\* C29 (as claimed): Gather.GetMetrics with zero specs and
\* Evaluate.GetEvaluation with zero metrics each return an error reporting 0
\* invalid out of 0 and no value; no facade returns a nil value with a nil
\* error.
C29_EmptyListFails ==
    /\ NoSpecs => (ret.err = ZeroOfZeroMetrics /\ ret.metrics = <<>>)
    /\ NoGatheredMetrics => (ret.err = ZeroOfZeroEvaluations /\ ret.evaluation.nil)
    /\ ~EmptySuccess

\* C29 (amended): Gather.GetMetrics with zero specs returns no metrics and an
\* error, reporting 0 invalid out of 0 when the scale target is of a supported
\* kind and the unsupported kind otherwise; Evaluate.GetEvaluation with zero
\* metrics returns no evaluation and an error reporting 0 invalid out of 0; no
\* facade returns a nil value with a nil error.
C29_EmptyListFailsOnSupported ==
    /\ NoSpecs =>
          /\ ret.metrics = <<>>
          /\ Supported => ret.err = ZeroOfZeroMetrics
          /\ ~Supported => ret.err = Error(UnsupportedResource(args.resource.Kind))
    /\ NoGatheredMetrics => (ret.err = ZeroOfZeroEvaluations /\ ret.evaluation.nil)
    /\ ~EmptySuccess

\* no spec for a Deployment
C29_Witness ==
    /\ NoSpecs /\ args.resource.Kind = "Deployment"
    /\ ret.err.msg = "invalid metrics (0 invalid out of 0), first error is: <nil>"
    /\ ret.metrics = <<>> /\ ret.calls = <<>>


(***************************************************************************)
(* The fill-in of the plain-metric mode does not overshoot                 *)
(***************************************************************************)
\* C30: in plain-metric mode, with samples >= 0 and a target > 0: if the base
\* ratio u < 1 the ratio u' of the sample map after the fill-in satisfies
\* u <= u' < 1, so the direction-flip guard does not fire and, when pods were
\* missing, the result is the current replica count if u' is in the tolerance
\* band and ceil(u' * n) otherwise, n the size of the map; if u > 1 then
\* u' <= u.
C30_FillInDoesNotOvershoot ==
    InPlainMetric =>
        /\ Direction(BaseRatio) = 1 =>
              /\ RatLE(BaseRatio, CorrectedRatio)
              /\ Direction(CorrectedRatio) = 1
              /\ args.missingPods # {} =>
                    IF WithinTolerance(CorrectedRatio, args.tolerance)
                    THEN ret.replicas = args.currentReplicas
                    ELSE IsCeilTimes(ret.replicas, CorrectedRatio,
                                     Cardinality(DOMAIN ret.metrics))
        /\ Direction(BaseRatio) = -1 => RatLE(CorrectedRatio, BaseRatio)

\* a scale-down with a missing pod: u = 0 < u' = 1/3 < 1 and the result is
\* ceil(u' * 2) = 1, not the current replica count
C30_Witness ==
    /\ InPlainMetric /\ args.metrics = [p \in {"p1"} |-> 0]
    /\ args.targetUtilization = 3 /\ args.missingPods = {"p2"} /\ args.ignoredPods = {}
    /\ args.currentReplicas = 2
    /\ BaseRatio = <<0, 3>> /\ CorrectedRatio = <<1, 3>>
    /\ ret.replicas = 1

=============================================================================
